---------------------------- MODULE Spec2Model ----------------------------
(***************************************************************************)
(* Model of the royalties frontend's ledger client:                        *)
(*   - the account decoders and collection queries of lib/solana.ts and    *)
(*     of the /api/listings and /api/resale-listings routes,               *)
(*   - the cache-aside protocol around them (the in-memory cache of        *)
(*     lib/cache and the Redis cache of lib/redis),                        *)
(*   - the mutations that sign, send, confirm and then invalidate,         *)
(*   - the metadata memo of lib/api.ts.                                    *)
(*                                                                         *)
(* Buffers are sequences of bytes; offsets are zero-based as in the code.  *)
(***************************************************************************)
EXTENDS Integers, Sequences, FiniteSets, TLC

VARIABLES
    accts,      \* CodecSpec: the program accounts getProgramAccounts returns (sample ids)
    qkind,      \* CodecSpec: which collection query has run ("none" before)
    qres,       \* CodecSpec: its outcome
    now,        \* wall-clock time, in ticks
    chain,      \* the ledger: the number of mutations that have landed
    cache,      \* lib/cache: the in-memory cache of the browser, key -> entry or Miss
    redis,      \* lib/redis: the Redis cache of the API routes, key -> entry or Miss
    redisOn,    \* isRedisConfigured()
    procs,      \* the running queries, one record per slot
    mut,        \* the running mutation
    inval,      \* history: the ledger version at the latest invalidateListingCaches()
    calls,      \* history: the number of queries called so far
    metadataCache,  \* lib/api.ts: the memo of fetchMetadataFromURI, uri -> result or Absent
    lookups,    \* the running fetchMetadataFromURI calls, one record per slot
    arg,        \* single calls: the input the function is called with
    call,       \* single calls: the function that has run ("none" before), or its step
    ret         \* single calls: what it returned

codecVars == <<accts, qkind, qres>>

protoVars == <<now, chain, cache, redis, redisOn, procs, mut, inval, calls>>

metaVars == <<metadataCache, lookups>>

unitVars == <<arg, call, ret>>

vars ==
    <<accts, qkind, qres, now, chain, cache, redis, redisOn, procs, mut, inval, calls,
      metadataCache, lookups, arg, call, ret>>

-----------------------------------------------------------------------------
(* Bounds of the model *)

\* Longest account list a collection query is run on.
MaxAccounts == 3

\* The clock stops here.
MaxClock == 3

\* Mutations that may land.
MaxMutations == 1

\* Queries that may be called.
MaxCalls == 2

-----------------------------------------------------------------------------
(* Bytes and buffers *)

Min(a, b) == IF a < b THEN a ELSE b

Max(a, b) == IF a < b THEN b ELSE a

\* A 32-byte identifier all of whose bytes are b.
Key(b) == [i \in 1..32 |-> b]

\* The little-endian bytes of n, w of them.
RECURSIVE LE(_, _)
LE(n, w) == IF w = 0 THEN <<>> ELSE <<n % 256>> \o LE(n \div 256, w - 1)

\* Buffer.slice(a, b): both ends clamped to the buffer.
Slice(data, a, b) == SubSeq(data, Min(a, Len(data)) + 1, Min(b, Len(data)))

\* Whether readUIntNLE(off) stays inside the buffer; outside it throws RangeError.
CanRead(data, off, n) == off + n <= Len(data)

\* readUInt8 / readUInt16LE / readUInt32LE of an in-bounds offset.
RECURSIVE ReadUIntLE(_, _, _)
ReadUIntLE(data, off, n) ==
    IF n = 0 THEN 0
    ELSE data[off + 1] + 256 * ReadUIntLE(data, off + 1, n - 1)

\* new PublicKey(bytes).toString(): the bytes are read as a big-endian number
\* (leading zeroes do not count), so a slice shorter than 32 bytes is accepted
\* and stands for the key with zero bytes in front. The base-58 text is
\* represented by the 32 bytes it encodes.
PublicKey(bytes) ==
    [i \in 1..32 |-> IF i <= 32 - Len(bytes) THEN 0 ELSE bytes[i - (32 - Len(bytes))]]

-----------------------------------------------------------------------------
(* 64-bit integers.  An integer is [s |-> 1 or -1, m |-> magnitude], the    *)
(* magnitude being its little-endian base-256 digits without high zeroes.  *)

RECURSIVE Mag(_)
Mag(d) == IF d # <<>> /\ d[Len(d)] = 0 THEN Mag(SubSeq(d, 1, Len(d) - 1)) ELSE d

\* 2^64 - d for 8 digits d (two's complement negation), d # 0.
RECURSIVE Negate(_, _)
Negate(d, borrowed) ==
    IF d = <<>> THEN <<>>
    ELSE IF borrowed THEN <<255 - d[1]>> \o Negate(Tail(d), TRUE)
    ELSE IF d[1] = 0 THEN <<0>> \o Negate(Tail(d), FALSE)
    ELSE <<256 - d[1]>> \o Negate(Tail(d), TRUE)

\* readBigUInt64LE(off) of an in-bounds offset.
ReadBigUInt64LE(data, off) == [s |-> 1, m |-> Mag(SubSeq(data, off + 1, off + 8))]

\* readBigInt64LE(off) of an in-bounds offset.
ReadBigInt64LE(data, off) ==
    LET d == SubSeq(data, off + 1, off + 8)
    IN  IF d[8] >= 128 THEN [s |-> -1, m |-> Mag(Negate(d, FALSE))]
        ELSE [s |-> 1, m |-> Mag(d)]

\* (BigInt(readUInt32LE(off + 4)) << 32n) + BigInt(readUInt32LE(off)), as text.
ReadU32Pair(data, off) ==
    [s |-> 1, m |-> Mag(SubSeq(data, off + 1, off + 4) \o SubSeq(data, off + 5, off + 8))]

\* The bits of a magnitude, least significant first.
RECURSIVE ByteBits(_, _)
ByteBits(b, k) == IF k = 0 THEN <<>> ELSE <<b % 2>> \o ByteBits(b \div 2, k - 1)

RECURSIVE Bits(_)
Bits(d) == IF d = <<>> THEN <<>> ELSE ByteBits(d[1], 8) \o Bits(Tail(d))

RECURSIVE BitsValue(_)
BitsValue(b) == IF b = <<>> THEN 0 ELSE b[1] + 2 * BitsValue(Tail(b))

RECURSIVE Digits(_)
Digits(b) ==
    IF b = <<>> THEN <<>>
    ELSE <<BitsValue(SubSeq(b, 1, Min(8, Len(b))))>> \o Digits(SubSeq(b, 9, Len(b)))

\* b + 1 on bits, least significant first.
RECURSIVE Increment(_)
Increment(b) ==
    IF b = <<>> THEN <<1>>
    ELSE IF b[1] = 0 THEN <<1>> \o Tail(b)
    ELSE <<0>> \o Increment(Tail(b))

\* Number(bigint): the nearest double, ties to even (53 significant bits).
Number(x) ==
    LET bits == Bits(x.m)
        set  == {i \in 1..Len(bits) : bits[i] = 1}
        top  == IF set = {} THEN 0 ELSE CHOOSE i \in set : \A j \in set : j <= i
        drop == top - 53
    IN  IF drop <= 0 THEN x
        ELSE LET kept   == SubSeq(bits, drop + 1, top)
                 guard  == bits[drop]
                 sticky == \E i \in 1..(drop - 1) : bits[i] = 1
                 up     == guard = 1 /\ (sticky \/ kept[1] = 1)
                 mant   == IF up THEN Increment(kept) ELSE kept
             IN  [s |-> x.s, m |-> Mag(Digits([i \in 1..drop |-> 0] \o mant))]

-----------------------------------------------------------------------------
(* Decoder outcomes *)

\* A callback that returned null.
Null == [tag |-> "null"]

\* An exception that left the callback.
Throw == [tag |-> "throw"]

\* A comparison that looks at the first discriminator byte only.
DiscMatchesFirstByte(disc, data) == Len(data) >= 1 /\ data[1] = disc[1]

\* discriminatorBytes.every((b, i) => b === data[i]): a byte past the end of
\* the buffer is undefined and equals no discriminator byte.
DiscMatches(disc, data) ==
    \A i \in 1..8 : i <= Len(data) /\ data[i] = disc[i]

-----------------------------------------------------------------------------
(* lib/solana.ts: fetchAllListings *)

royaltyListingDiscriminator == <<114, 27, 40, 41, 206, 120, 0, 66>>

\* ['Active', 'Sold', 'Cancelled', 'Expired'][statusValue] || 'Unknown'
StatusName(data, off) ==
    IF off < Len(data) /\ data[off + 1] \in 0..3
    THEN <<"Active", "Sold", "Cancelled", "Expired">>[data[off + 1] + 1]
    ELSE "Unknown"

\* The filter callback: data.length >= 8 and the discriminator bytes match.
IsRoyaltyListingAccount(account) ==
    /\ Len(account.data) >= 8
    /\ \A i \in 1..8 : account.data[i] = royaltyListingDiscriminator[i]

\* The body of the map callback's try block: the record, or Throw where a
\* read leaves the buffer.  data[offset] never throws.
ParseListingBody(account) ==
    LET data == account.data
    IN  IF ~CanRead(data, 72, 4) THEN Throw
        ELSE
        LET uriLength == ReadUIntLE(data, 72, 4)
            o         == 76 + uriLength
        IN  IF \/ ~CanRead(data, o, 2)
               \/ ~CanRead(data, o + 2, 8)
               \/ ~CanRead(data, o + 10, 8)
               \/ ~CanRead(data, o + 18, 8)
               \/ ~CanRead(data, o + 27, 2)
            THEN Throw
            ELSE [tag               |-> "rec",
                  publicKey         |-> account.pubkey,
                  creator           |-> PublicKey(Slice(data, 8, 40)),
                  nftMint           |-> PublicKey(Slice(data, 40, 72)),
                  metadataUri       |-> Slice(data, 76, o),
                  percentageBps     |-> ReadUIntLE(data, o, 2),
                  durationSeconds   |-> Number(ReadBigUInt64LE(data, o + 2)),
                  startTimestamp    |-> Number(ReadBigInt64LE(data, o + 10)),
                  price             |-> Number(ReadBigUInt64LE(data, o + 18)),
                  resaleAllowed     |-> (o + 26 < Len(data) /\ data[o + 27] = 1),
                  creatorRoyaltyBps |-> ReadUIntLE(data, o + 27, 2),
                  status            |-> StatusName(data, o + 29)]

\* A map callback that lets the exception out (no try/catch around the body).
ParseListingUncaught(account) == ParseListingBody(account)

\* The map callback: try { body } catch { return null }.
ParseListing(account) ==
    LET r == ParseListingBody(account)
    IN  IF r = Throw THEN Null ELSE r

\* An exception inside a loop or a map ends it; otherwise the non-null results.
Collect(parsed) ==
    IF \E i \in 1..Len(parsed) : parsed[i] = Throw THEN Throw
    ELSE [tag |-> "list", items |-> SelectSeq(parsed, LAMBDA r : r # Null)]

\* accounts.filter(isListing).map(parse).filter(Boolean)
DecodeAllListings(accounts) ==
    LET kept == SelectSeq(accounts, IsRoyaltyListingAccount)
    IN  Collect([i \in 1..Len(kept) |-> ParseListing(kept[i])])

-----------------------------------------------------------------------------
(* lib/solana.ts: fetchAllResaleListings *)

\* ResaleListing::LEN, the dataSize filter handed to getProgramAccounts.
ResaleLen == 121

\* The RPC node applies the dataSize filter.
DataSizeFilter(accounts) == SelectSeq(accounts, LAMBDA a : Len(a.data) = ResaleLen)

\* The map callback: no discriminator test, no test of the active flag, no
\* try/catch; every read is inside a 121-byte buffer.
ParseResale(account) ==
    LET data == account.data
    IN  IF ~CanRead(data, 104, 8) \/ ~CanRead(data, 112, 8) THEN Throw
        ELSE [tag            |-> "rec",
              publicKey      |-> account.pubkey,
              seller         |-> PublicKey(Slice(data, 8, 40)),
              royaltyListing |-> PublicKey(Slice(data, 40, 72)),
              nftMint        |-> PublicKey(Slice(data, 72, 104)),
              price          |-> Number(ReadBigUInt64LE(data, 104)),
              listedAt       |-> Number(ReadBigInt64LE(data, 112))]

DecodeAllResaleListings(accounts) ==
    LET kept == DataSizeFilter(accounts)
    IN  Collect([i \in 1..Len(kept) |-> ParseResale(kept[i])])

-----------------------------------------------------------------------------
(* /api/listings route: parseListingAccount, fetchListingsFromChain *)

ROYALTY_LISTING_DISCRIMINATOR == <<142, 180, 37, 203, 57, 212, 243, 45>>

\* statusMap[statusByte] || 'Unknown'
StatusMap(b) ==
    IF b \in 0..2 THEN <<"Active", "Sold", "Cancelled">>[b + 1] ELSE "Unknown"

\* The try block of parseListingAccount.
parseListingAccountBody(pubkey, data) ==
    IF ~DiscMatches(ROYALTY_LISTING_DISCRIMINATOR, data) THEN Null
    ELSE IF ~CanRead(data, 72, 4) THEN Throw
    ELSE
    LET uriLength == ReadUIntLE(data, 72, 4)
        o         == 76 + uriLength
    IN  IF \/ ~CanRead(data, o, 4)      \/ ~CanRead(data, o + 4, 4)
           \/ ~CanRead(data, o + 8, 2)
           \/ ~CanRead(data, o + 10, 4) \/ ~CanRead(data, o + 14, 4)
           \/ ~CanRead(data, o + 18, 4) \/ ~CanRead(data, o + 22, 4)
           \/ ~CanRead(data, o + 26, 1)
           \/ ~CanRead(data, o + 27, 2)
           \/ ~CanRead(data, o + 29, 1)
        THEN Throw
        ELSE [tag              |-> "rec",
              pubkey           |-> pubkey,
              creator          |-> PublicKey(Slice(data, 8, 40)),
              nftMint          |-> PublicKey(Slice(data, 40, 72)),
              metadataUri      |-> Slice(data, 76, o),
              price            |-> ReadU32Pair(data, o),
              percentageBps    |-> ReadUIntLE(data, o + 8, 2),
              durationSeconds  |-> ReadU32Pair(data, o + 10),
              createdAt        |-> ReadU32Pair(data, o + 18),
              resaleAllowed    |-> (ReadUIntLE(data, o + 26, 1) = 1),
              resaleRoyaltyBps |-> ReadUIntLE(data, o + 27, 2),
              status           |-> StatusMap(ReadUIntLE(data, o + 29, 1))]

\* parseListingAccount without its catch.
parseListingAccountUncaught(pubkey, data) == parseListingAccountBody(pubkey, data)

\* try { body } catch (error) { return null }
parseListingAccount(pubkey, data) ==
    LET r == parseListingAccountBody(pubkey, data)
    IN  IF r = Throw THEN Null ELSE r

\* The loop's test without the status comparison.
KeepListingAnyStatus(parsed) == parsed # Null

\* if (parsed && parsed.status === 'Active') listings.push(parsed)
KeepListing(parsed) ==
    IF parsed = Null \/ parsed = Throw THEN FALSE ELSE parsed.status = "Active"

fetchListingsFromChain(accounts) ==
    LET parsed == [i \in 1..Len(accounts) |->
                     parseListingAccount(accounts[i].pubkey, accounts[i].data)]
    IN  IF \E i \in 1..Len(parsed) : parsed[i] = Throw THEN Throw
        ELSE [tag |-> "list", items |-> SelectSeq(parsed, KeepListing)]

-----------------------------------------------------------------------------
(* /api/resale-listings route *)

RESALE_LISTING_DISCRIMINATOR == <<214, 254, 220, 107, 49, 129, 174, 134>>

parseResaleListingAccountBody(pubkey, data) ==
    IF ~DiscMatches(RESALE_LISTING_DISCRIMINATOR, data) THEN Null
    ELSE IF \/ ~CanRead(data, 104, 4) \/ ~CanRead(data, 108, 4)
            \/ ~CanRead(data, 112, 4) \/ ~CanRead(data, 116, 4)
            \/ ~CanRead(data, 120, 1)
    THEN Throw
    ELSE [tag             |-> "rec",
          pubkey          |-> pubkey,
          seller          |-> PublicKey(Slice(data, 8, 40)),
          originalListing |-> PublicKey(Slice(data, 40, 72)),
          nftMint         |-> PublicKey(Slice(data, 72, 104)),
          price           |-> ReadU32Pair(data, 104),
          createdAt       |-> ReadU32Pair(data, 112),
          isActive        |-> (ReadUIntLE(data, 120, 1) = 1)]

parseResaleListingAccount(pubkey, data) ==
    LET r == parseResaleListingAccountBody(pubkey, data)
    IN  IF r = Throw THEN Null ELSE r

\* if (parsed && parsed.isActive) listings.push(parsed)
KeepResale(parsed) ==
    IF parsed = Null \/ parsed = Throw THEN FALSE ELSE parsed.isActive

fetchResaleListingsFromChain(accounts) ==
    LET parsed == [i \in 1..Len(accounts) |->
                     parseResaleListingAccount(accounts[i].pubkey, accounts[i].data)]
    IN  IF \E i \in 1..Len(parsed) : parsed[i] = Throw THEN Throw
        ELSE [tag |-> "list", items |-> SelectSeq(parsed, KeepResale)]

-----------------------------------------------------------------------------
(* Sample program accounts, laid out as the wire table of the ledger program *)

\* A listing account: discriminator, creator, content id, uri, percentage,
\* duration, created-at, price, resale flag, resale royalty, status.
ListingBytes(disc, creator, mint, uri, bps, dur, created, price, resale, roy, status) ==
    disc \o creator \o mint \o LE(Len(uri), 4) \o uri \o LE(bps, 2)
         \o dur \o created \o price \o <<resale>> \o LE(roy, 2) \o <<status>>

\* A resale account: discriminator, seller, listing, content id, price,
\* listed-at, active flag.
ResaleBytes(disc, seller, listing, mint, price, listedAt, active) ==
    disc \o seller \o listing \o mint \o price \o listedAt \o <<active>>

OtherDiscriminator == <<1, 2, 3, 4, 5, 6, 7, 8>>

SampleUri == <<105, 112>>

\* A well-formed listing of the given discriminator and status byte.
SampleListing(disc, status) ==
    ListingBytes(disc, Key(11), Key(12), SampleUri, 2500, LE(86400, 8),
                 LE(1700000000, 8), LE(5000000, 8), 1, 500, status)

SampleResale(disc, active) ==
    ResaleBytes(disc, Key(21), Key(22), Key(12), LE(7000000, 8), LE(1700000500, 8), active)

\* The sample whose uri length field says more bytes than the buffer holds.
OverlongUri(disc) ==
    disc \o Key(11) \o Key(12) \o LE(200, 4) \o SampleUri \o LE(2500, 2)
         \o LE(86400, 8) \o LE(1700000000, 8) \o LE(5000000, 8) \o <<1>> \o LE(500, 2) \o <<0>>

SampleData ==
    << SampleListing(royaltyListingDiscriminator, 0),                      \* 1
       SampleListing(royaltyListingDiscriminator, 1),                      \* 2
       SampleListing(ROYALTY_LISTING_DISCRIMINATOR, 0),                    \* 3
       SampleListing(ROYALTY_LISTING_DISCRIMINATOR, 3),                    \* 4
       SampleResale(RESALE_LISTING_DISCRIMINATOR, 1),                      \* 5
       SampleResale(RESALE_LISTING_DISCRIMINATOR, 0),                      \* 6
       SampleResale(OtherDiscriminator, 1),                                \* 7
       SubSeq(SampleListing(royaltyListingDiscriminator, 0), 1, 90),       \* 8
       SubSeq(SampleListing(ROYALTY_LISTING_DISCRIMINATOR, 0), 1, 90),     \* 9
       OverlongUri(ROYALTY_LISTING_DISCRIMINATOR),                         \* 10
       SubSeq(SampleListing(royaltyListingDiscriminator, 0), 1, 107),      \* 11
       SubSeq(SampleResale(RESALE_LISTING_DISCRIMINATOR, 1), 1, 100),      \* 12
       <<114, 27, 40>> >>                                                  \* 13

SampleIds == DOMAIN SampleData

\* The account list of ids: the account at position i has address Key(i).
Accounts(ids) == [i \in 1..Len(ids) |-> [pubkey |-> Key(i), data |-> SampleData[ids[i]]]]

RECURSIVE SeqsUpTo(_, _)
SeqsUpTo(S, n) ==
    IF n = 0 THEN {<<>>}
    ELSE LET shorter == SeqsUpTo(S, n - 1)
         IN  shorter \cup {Append(q, x) : q \in {r \in shorter : Len(r) = n - 1}, x \in S}

-----------------------------------------------------------------------------
(* The ledger.  Its content is a function of the number of mutations that   *)
(* have landed: every mutation adds a listing of each decoder's kind and a  *)
(* resale account, so every query's answer changes with every mutation.    *)

RECURSIVE Grown(_)
Grown(v) == IF v = 0 THEN <<>> ELSE Grown(v - 1) \o <<1, 3, 5>>

LedgerIds(v) == <<7, 8>> \o Grown(v + 1)

\* What getProgramAccounts returns for a node that reads the ledger at version v.
Ledger(v) == Accounts(LedgerIds(v))

Versions == 0 .. MaxMutations

\* The four collection queries' decoding of each version of the ledger.
AllListingsAt == [v \in Versions |-> DecodeAllListings(Ledger(v))]

AllResaleListingsAt == [v \in Versions |-> DecodeAllResaleListings(Ledger(v))]

ChainListingsAt == [v \in Versions |-> fetchListingsFromChain(Ledger(v))]

ChainResaleListingsAt == [v \in Versions |-> fetchResaleListingsFromChain(Ledger(v))]

-----------------------------------------------------------------------------
(* lib/cache and lib/redis: get / set / invalidate with a TTL per entry.   *)

Miss == [tag |-> "miss"]

\* CACHE_TTL.LISTINGS of lib/cache, in ticks.
CACHE_TTL_LISTINGS == 2

\* CACHE_TTL.LISTINGS and CACHE_TTL.RESALE of lib/redis, in ticks.
REDIS_TTL_LISTINGS == 2

REDIS_TTL_RESALE == 2

\* CACHE_KEYS.ALL_LISTINGS, CACHE_KEYS.ALL_RESALE_LISTINGS
ClientKeys == {"ALL_LISTINGS", "ALL_RESALE_LISTINGS"}

\* CACHE_KEY of the two routes
RedisKeys == {"listings:primary", "listings:resale"}

\* An entry has expired once its ttl has elapsed since the set.
Expired(e, t) == t - e.at >= e.ttl

\* get(key): the stored value, or Miss for no entry and for an expired one
\* (lazy expiry: the entry stays until something overwrites or invalidates it).
CacheGet(store, key, t) ==
    IF store[key] = Miss \/ Expired(store[key], t) THEN Miss ELSE store[key].value

\* set(key, value, ttl): replaces the entry, recording the time.
CacheSet(store, key, value, ttl, t) ==
    [store EXCEPT ![key] = [tag |-> "entry", value |-> value, at |-> t, ttl |-> ttl]]

\* invalidate(key)
Invalidate(store, key) == [store EXCEPT ![key] = Miss]

\* invalidateListingCaches(): both listing collections of lib/cache.
InvalidateListingCaches(store) ==
    Invalidate(Invalidate(store, "ALL_LISTINGS"), "ALL_RESALE_LISTINGS")

-----------------------------------------------------------------------------
(* Queries in flight *)

Slots == {1, 2}

ClientOps == {"fetchAllListings", "fetchAllResaleListings"}

RouteOps == {"GET /api/listings", "GET /api/resale-listings"}

ClientKey(op) == IF op = "fetchAllListings" THEN "ALL_LISTINGS" ELSE "ALL_RESALE_LISTINGS"

RouteKey(op) == IF op = "GET /api/listings" THEN "listings:primary" ELSE "listings:resale"

IdleProc ==
    [pc |-> "idle", op |-> "none", fresh |-> FALSE, v0 |-> 0, src |-> "none", res |-> Null]

\* A decoded collection, with its history: the ledger version it was read at
\* and the time the response carrying it arrived.
Value(items, v, t) == [tag |-> "list", items |-> items, ver |-> v, got |-> t]

\* A finished query: where its answer came from, and the answer.
Done(pr, src, res) ==
    [pr EXCEPT !.pc = "done", !.fresh = FALSE, !.v0 = 0, !.src = src, !.res = res]

\* What a query that failed returns: nothing.
Nothing == [tag |-> "list", items |-> <<>>, ver |-> 0, got |-> 0]

\* A query that has issued getProgramAccounts, and the ledger version at the
\* request.
Requesting(pr) == [pr EXCEPT !.pc = "rpc", !.v0 = chain, !.res = Null]

-----------------------------------------------------------------------------
(* lib/solana.ts: fetchAllListings, fetchAllResaleListings *)

\* A lookup that never consults the cache.
ClientLookupNever(op, fresh) == Miss

\* if (!forceRefresh) { const cached = cache.get(KEY); if (cached) return cached }
ClientLookup(op, fresh) ==
    IF fresh THEN Miss ELSE CacheGet(cache, ClientKey(op), now)

\* The call up to its first await: a cache hit returns at once, anything else
\* issues getProgramAccounts.
FetchCall(p, op, fresh) ==
    /\ procs[p].pc \in {"idle", "done"}
    /\ calls < MaxCalls
    /\ calls' = calls + 1
    /\ LET cached == ClientLookup(op, fresh)
           pr     == [IdleProc EXCEPT !.op = op, !.fresh = fresh]
       IN  procs' = [procs EXCEPT ![p] =
                        IF cached # Miss THEN Done(pr, "cache", cached)
                        ELSE Requesting(pr)]
    /\ UNCHANGED <<now, chain, cache, redis, redisOn, mut, inval>>
    /\ UNCHANGED <<codecVars, metaVars, unitVars>>

\* fetchAllListings after the await: the decoded list is returned by the
\* statement that builds it (return accounts.map(..).filter(Boolean)), so the
\* cache.set that follows it is never reached.
ListingsCacheAfterFetch(store, value) == store

\* fetchAllResaleListings after the await: cache.set(KEY, listings, TTL).
ResaleCacheAfterFetch(store, value) ==
    CacheSet(store, "ALL_RESALE_LISTINGS", value, CACHE_TTL_LISTINGS, now)

\* The response arrives.  The node read the ledger at some version between the
\* request and now.  An exception in the decoding lands in the catch, which
\* returns [] and leaves the cache alone.
FetchResume(p) ==
    /\ procs[p].pc = "rpc"
    /\ procs[p].op \in ClientOps
    /\ \E v \in procs[p].v0 .. chain :
         LET decoded == IF procs[p].op = "fetchAllListings"
                        THEN AllListingsAt[v]
                        ELSE AllResaleListingsAt[v]
             value   == Value(decoded.items, v, now)
         IN  IF decoded = Throw
             THEN /\ procs' = [procs EXCEPT ![p] = Done(@, "failed", Nothing)]
                  /\ cache' = cache
             ELSE /\ procs' = [procs EXCEPT ![p] = Done(@, "network", value)]
                  /\ cache' = IF procs[p].op = "fetchAllListings"
                              THEN ListingsCacheAfterFetch(cache, value)
                              ELSE ResaleCacheAfterFetch(cache, value)
    /\ UNCHANGED <<now, chain, redis, redisOn, mut, inval, calls>>
    /\ UNCHANGED <<codecVars, metaVars, unitVars>>

\* getProgramAccounts rejects: catch (error) { return [] }.
FetchFail(p) ==
    /\ procs[p].pc = "rpc"
    /\ procs[p].op \in ClientOps
    /\ procs' = [procs EXCEPT ![p] = Done(@, "failed", Nothing)]
    /\ UNCHANGED <<now, chain, cache, redis, redisOn, mut, inval, calls>>
    /\ UNCHANGED <<codecVars, metaVars, unitVars>>

-----------------------------------------------------------------------------
(* lib/solana.ts: the mutations.  Each builds its instruction, has the      *)
(* wallet sign, sends, awaits the confirmation, invalidates, returns.      *)

MutationOps ==
    {"createRoyaltyListing", "buyRoyaltyListing", "depositPayout", "claimPayout",
     "listForResale", "buyResaleListing", "cancelResale"}

IdleMut == [pc |-> "idle"]

\* One of the operations is called; it runs up to
\* provider.wallet.signTransaction.  All seven continue alike from there.
MutStart(op) ==
    /\ mut.pc \in {"idle", "done", "failed"}
    /\ chain < MaxMutations
    /\ op \in MutationOps
    /\ mut' = [pc |-> "signing"]
    /\ UNCHANGED <<now, chain, cache, redis, redisOn, procs, inval, calls>>
    /\ UNCHANGED <<codecVars, metaVars, unitVars>>

\* The wallet signed and sendRawTransaction returned the transaction id.
MutSend ==
    /\ mut.pc = "signing"
    /\ mut' = [mut EXCEPT !.pc = "sent"]
    /\ UNCHANGED <<now, chain, cache, redis, redisOn, procs, inval, calls>>
    /\ UNCHANGED <<codecVars, metaVars, unitVars>>

\* The ledger program executes the transaction.
Land ==
    /\ mut.pc = "sent"
    /\ chain' = chain + 1
    /\ mut' = [mut EXCEPT !.pc = "landed"]
    /\ UNCHANGED <<now, cache, redis, redisOn, procs, inval, calls>>
    /\ UNCHANGED <<codecVars, metaVars, unitVars>>

\* A mutation that returns without invalidating.
AfterConfirmKeep(store) == store

\* What follows the awaited confirmation: invalidateListingCaches().
AfterConfirm(store) == InvalidateListingCaches(store)

\* confirmTransaction resolved: invalidate, then return the transaction id.
MutConfirm ==
    /\ mut.pc = "landed"
    /\ cache' = AfterConfirm(cache)
    /\ inval' = chain
    /\ mut' = [mut EXCEPT !.pc = "done"]
    /\ UNCHANGED <<now, chain, redis, redisOn, procs, calls>>
    /\ UNCHANGED <<codecVars, metaVars, unitVars>>

\* An awaited step rejects (an account lookup, the wallet, the send, the
\* confirmation): the operation throws from there.
MutThrow ==
    /\ mut.pc \in {"signing", "sent", "landed"}
    /\ mut' = [mut EXCEPT !.pc = "failed"]
    /\ UNCHANGED <<now, chain, cache, redis, redisOn, procs, inval, calls>>
    /\ UNCHANGED <<codecVars, metaVars, unitVars>>

\* Seen from the server: the transaction of some browser's mutation lands.
LedgerChange ==
    /\ chain < MaxMutations
    /\ chain' = chain + 1
    /\ UNCHANGED <<now, cache, redis, redisOn, procs, mut, inval, calls>>
    /\ UNCHANGED <<codecVars, metaVars, unitVars>>

\* Time passes.
Tick ==
    /\ now < MaxClock
    /\ now' = now + 1
    /\ UNCHANGED <<chain, cache, redis, redisOn, procs, mut, inval, calls>>
    /\ UNCHANGED <<codecVars, metaVars, unitVars>>

-----------------------------------------------------------------------------
(* The GET handlers of /api/listings and /api/resale-listings *)

\* A handler that caches its result for one tick longer.
RouteTTLLonger(op) == REDIS_TTL_LISTINGS + 1

\* setInCache(CACHE_KEY, listings, CACHE_TTL.LISTINGS) / (.., CACHE_TTL.RESALE)
RouteTTL(op) == IF op = "GET /api/listings" THEN REDIS_TTL_LISTINGS ELSE REDIS_TTL_RESALE

\* const listings = await fetchListingsFromChain() / fetchResaleListingsFromChain()
RouteFetch(op, v) ==
    IF op = "GET /api/listings" THEN ChainListingsAt[v] ELSE ChainResaleListingsAt[v]

\* The request arrives.  skipCache = (fresh === 'true'); the cache is asked
\* only if (!skipCache && isRedisConfigured()), else the handler goes to the chain.
RouteStart(p, op, fresh) ==
    /\ procs[p].pc \in {"idle", "done"}
    /\ calls < MaxCalls
    /\ calls' = calls + 1
    /\ LET pr == [IdleProc EXCEPT !.op = op, !.fresh = fresh]
       IN  procs' = [procs EXCEPT ![p] =
                        IF ~fresh /\ redisOn THEN [pr EXCEPT !.pc = "redisGet"]
                        ELSE Requesting(pr)]
    /\ UNCHANGED <<now, chain, cache, redis, redisOn, mut, inval>>
    /\ UNCHANGED <<codecVars, metaVars, unitVars>>

\* Redis serves the GET of getFromCache: the reply is what the key holds now.
RedisGetServe(p) ==
    /\ procs[p].pc = "redisGet"
    /\ procs' = [procs EXCEPT ![p] =
                    [@ EXCEPT !.pc = "redisGot",
                              !.res = CacheGet(redis, RouteKey(procs[p].op), now)]]
    /\ UNCHANGED <<now, chain, cache, redis, redisOn, mut, inval, calls>>
    /\ UNCHANGED <<codecVars, metaVars, unitVars>>

\* The await of getFromCache resumes: if (cached) respond with it (cached:
\* true), else go on to the chain.
RedisGetReturn(p) ==
    /\ procs[p].pc = "redisGot"
    /\ procs' = [procs EXCEPT ![p] =
                    IF procs[p].res # Miss THEN Done(@, "cache", procs[p].res)
                    ELSE Requesting(@)]
    /\ UNCHANGED <<now, chain, cache, redis, redisOn, mut, inval, calls>>
    /\ UNCHANGED <<codecVars, metaVars, unitVars>>

\* getProgramAccounts answers and the accounts are decoded and filtered.
\* if (isRedisConfigured()) the handler goes on to setInCache, else it responds.
RouteRpcDone(p) ==
    /\ procs[p].pc = "rpc"
    /\ procs[p].op \in RouteOps
    /\ \E v \in procs[p].v0 .. chain :
         LET listings == RouteFetch(procs[p].op, v)
             value    == Value(listings.items, v, now)
         IN  procs' = [procs EXCEPT ![p] =
                          IF listings = Throw THEN Done(@, "failed", Nothing)
                          ELSE IF redisOn
                          THEN [@ EXCEPT !.pc = "redisSet", !.fresh = FALSE, !.v0 = 0,
                                         !.res = value]
                          ELSE Done(@, "network", value)]
    /\ UNCHANGED <<now, chain, cache, redis, redisOn, mut, inval, calls>>
    /\ UNCHANGED <<codecVars, metaVars, unitVars>>

\* A handler that would answer a rejected getProgramAccounts by storing an
\* empty collection under the route's key.
RouteRpcFailCaching(p) ==
    /\ procs[p].pc = "rpc"
    /\ procs[p].op \in RouteOps
    /\ procs' = [procs EXCEPT ![p] = Done(@, "failed", Nothing)]
    /\ redis' = CacheSet(redis, RouteKey(procs[p].op), Nothing,
                         RouteTTL(procs[p].op), now)
    /\ UNCHANGED <<now, chain, cache, redisOn, mut, inval, calls>>
    /\ UNCHANGED <<codecVars, metaVars, unitVars>>

\* getProgramAccounts rejects: the catch responds 500, success: false.
RouteRpcFail(p) ==
    /\ procs[p].pc = "rpc"
    /\ procs[p].op \in RouteOps
    /\ procs' = [procs EXCEPT ![p] = Done(@, "failed", Nothing)]
    /\ UNCHANGED <<now, chain, cache, redis, redisOn, mut, inval, calls>>
    /\ UNCHANGED <<codecVars, metaVars, unitVars>>

\* Redis applies the SET of setInCache, with the time of the write; the handler
\* resumes and responds with the listings (cached: false).
RedisSetDone(p) ==
    /\ procs[p].pc = "redisSet"
    /\ redis' = CacheSet(redis, RouteKey(procs[p].op), procs[p].res,
                         RouteTTL(procs[p].op), now)
    /\ procs' = [procs EXCEPT ![p] = Done(@, "network", procs[p].res)]
    /\ UNCHANGED <<now, chain, cache, redisOn, mut, inval, calls>>
    /\ UNCHANGED <<codecVars, metaVars, unitVars>>

-----------------------------------------------------------------------------
(* lib/api.ts: parseMetadataFromAPI, fetchMetadataFromURI                   *)
(* A string is a sequence of tokens; the empty string is the empty         *)
(* sequence, the one falsy string.                                         *)

Str(t) == <<t>>

\* a || b on strings
OrElse(a, b) == IF a # <<>> THEN a ELSE b

\* parts.join('/')
RECURSIVE Join(_)
Join(parts) ==
    IF Len(parts) = 0 THEN <<>>
    ELSE IF Len(parts) = 1 THEN parts[1]
    ELSE parts[1] \o <<"/">> \o Join(Tail(parts))

\* The JSON documents a metadata file, or the payload of a data: URI, can be.
\* attrPlatform is the value of the attribute whose trait_type is 'platform'.
Bodies ==
    <<[work |-> Str("w1"), name |-> Str("n1"), source |-> Str("s1"), attrPlatform |-> <<>>,
       imageUrl |-> <<>>, image |-> Str("i1"), description |-> Str("d1")],
      [work |-> <<>>, name |-> Str("n2"), source |-> <<>>, attrPlatform |-> Str("p2"),
       imageUrl |-> Str("u2"), image |-> Str("i2"), description |-> <<>>]>>

\* The URIs looked up.  payload numbers the base64 text of a data: URI: text k
\* decodes (atob, JSON.parse) to Bodies[k], text 0 does not decode.  parts is
\* what follows ipfs://, split at '/'.
Uri(scheme, parts, payload) == [scheme |-> scheme, parts |-> parts, payload |-> payload]

Uris ==
    {Uri("https", <<>>, 0),
     Uri("ipfs", <<Str("youtube"), Str("my-video")>>, 0),
     Uri("ipfs", <<<<>>>>, 0),
     Uri("data", <<>>, 1),
     Uri("data", <<>>, 0),
     Uri("other", <<>>, 0)}

Metadata(name, platform, imageUrl, description) ==
    [name |-> name, platform |-> platform, imageUrl |-> imageUrl, description |-> description]

\* { name: 'Untitled', platform: 'Unknown', imageUrl: '', description: '' }
Fallback == Metadata(Str("Untitled"), Str("Unknown"), <<>>, <<>>)

parseMetadataFromAPI(uri) ==
    IF uri.scheme = "data" /\ uri.payload \in DOMAIN Bodies
    THEN LET json == Bodies[uri.payload]
         IN  Metadata(OrElse(OrElse(json.work, json.name), Str("Untitled")),
                      OrElse(OrElse(json.source, json.attrPlatform), Str("Unknown")),
                      OrElse(OrElse(json.imageUrl, json.image), <<>>),
                      OrElse(json.description, <<>>))
    ELSE IF uri.scheme = "ipfs"
    THEN Metadata(OrElse(Join(Tail(uri.parts)), Str("Untitled")),
                  OrElse(uri.parts[1], Str("Unknown")),
                  <<>>, <<>>)
    ELSE Fallback

\* The result built from the JSON of an https response (direct or proxied).
FromJson(json) ==
    Metadata(OrElse(OrElse(json.work, json.name), Str("Untitled")),
             OrElse(json.source, Str("Unknown")),
             OrElse(OrElse(json.imageUrl, json.image), <<>>),
             OrElse(json.description, <<>>))

Absent == [tag |-> "absent"]

\* A memo that fills the fields a new result leaves at their defaults from
\* the entry it replaces.
MetadataCacheMerge(memo, uri, result) ==
    IF memo[uri] = Absent THEN [memo EXCEPT ![uri] = result]
    ELSE [memo EXCEPT ![uri] =
            [f \in DOMAIN result |-> IF result[f] = Fallback[f] THEN memo[uri][f]
                                     ELSE result[f]]]

\* metadataCache.set(uri, result)
MetadataCacheSet(memo, uri, result) == [memo EXCEPT ![uri] = result]

IdleLookup == [pc |-> "idle", uri |-> Uri("none", <<>>, 0), src |-> "none", result |-> Fallback]

Finished(lk, src, result) == [lk EXCEPT !.pc = "done", !.src = src, !.result = result]

MetaInit ==
    /\ metadataCache = [u \in Uris |-> Absent]
    /\ lookups = [p \in Slots |-> IdleLookup]

\* No single call under test.
UnitIdle ==
    /\ arg = Null
    /\ call = "none"
    /\ ret = Null

\* fetchMetadataFromURI(uri) up to its first await: a memo hit returns the
\* entry; data: and ipfs: URIs are parsed, stored and returned; an https URI is
\* fetched; anything else returns the fallback, which is not stored.
LookupCall(p, uri) ==
    /\ lookups[p].pc \in {"idle", "done"}
    /\ LET lk == [IdleLookup EXCEPT !.uri = uri]
       IN  IF metadataCache[uri] # Absent
           THEN /\ lookups' = [lookups EXCEPT ![p] = Finished(lk, "memo", metadataCache[uri])]
                /\ UNCHANGED metadataCache
           ELSE IF uri.scheme \in {"data", "ipfs"}
           THEN /\ lookups' = [lookups EXCEPT ![p] =
                                  Finished(lk, "parsed", parseMetadataFromAPI(uri))]
                /\ metadataCache' = MetadataCacheSet(metadataCache, uri, parseMetadataFromAPI(uri))
           ELSE IF uri.scheme = "https"
           THEN /\ lookups' = [lookups EXCEPT ![p] = [lk EXCEPT !.pc = "direct"]]
                /\ UNCHANGED metadataCache
           ELSE /\ lookups' = [lookups EXCEPT ![p] = Finished(lk, "fallback", Fallback)]
                /\ UNCHANGED metadataCache
    /\ UNCHANGED <<codecVars, protoVars, unitVars>>

\* A response handler that would store the fallback of a response that is not
\* ok.
RespondStoringFallback(p, src, ok, body) ==
    IF ok
    THEN /\ lookups' = [lookups EXCEPT ![p] = Finished(@, src, FromJson(Bodies[body]))]
         /\ metadataCache' = MetadataCacheSet(metadataCache, lookups[p].uri, FromJson(Bodies[body]))
    ELSE /\ lookups' = [lookups EXCEPT ![p] = Finished(@, "fallback", Fallback)]
         /\ metadataCache' = MetadataCacheSet(metadataCache, lookups[p].uri, Fallback)

\* The response of a fetch (direct or proxied) with its JSON: if (response.ok)
\* the result is built, stored and returned; otherwise the fallback is returned.
Respond(p, src, ok, body) ==
    IF ok
    THEN /\ lookups' = [lookups EXCEPT ![p] = Finished(@, src, FromJson(Bodies[body]))]
         /\ metadataCache' = MetadataCacheSet(metadataCache, lookups[p].uri, FromJson(Bodies[body]))
    ELSE /\ lookups' = [lookups EXCEPT ![p] = Finished(@, "fallback", Fallback)]
         /\ UNCHANGED metadataCache

\* The direct fetch answers.
DirectResponse(p, ok, body) ==
    /\ lookups[p].pc = "direct"
    /\ Respond(p, "direct", ok, body)
    /\ UNCHANGED <<codecVars, protoVars, unitVars>>

\* The direct fetch, or the reading of its JSON, throws: the catch tries the
\* proxy /api/metadata?url=...
DirectThrow(p) ==
    /\ lookups[p].pc = "direct"
    /\ lookups' = [lookups EXCEPT ![p] = [@ EXCEPT !.pc = "proxy"]]
    /\ UNCHANGED <<metadataCache, codecVars, protoVars, unitVars>>

\* The proxy answers.
ProxyResponse(p, ok, body) ==
    /\ lookups[p].pc = "proxy"
    /\ Respond(p, "proxy", ok, body)
    /\ UNCHANGED <<codecVars, protoVars, unitVars>>

\* The proxy fetch throws too: the fallback is returned.
ProxyThrow(p) ==
    /\ lookups[p].pc = "proxy"
    /\ lookups' = [lookups EXCEPT ![p] = Finished(@, "fallback", Fallback)]
    /\ UNCHANGED <<metadataCache, codecVars, protoVars, unitVars>>

-----------------------------------------------------------------------------
(* CodecSpec: the collection queries applied to every short account list *)

\* The protocol variables before anything has run.
ProtoInit ==
    /\ now = 0
    /\ chain = 0
    /\ cache = [k \in ClientKeys |-> Miss]
    /\ redis = [k \in RedisKeys |-> Miss]
    /\ redisOn = TRUE
    /\ procs = [p \in Slots |-> IdleProc]
    /\ mut = IdleMut
    /\ inval = 0
    /\ calls = 0

CodecInit ==
    /\ accts \in SeqsUpTo(SampleIds, MaxAccounts)
    /\ qkind = "none"
    /\ qres = Null
    /\ ProtoInit
    /\ MetaInit
    /\ UnitIdle

RunFetchAllListings ==
    /\ qkind = "none"
    /\ qkind' = "fetchAllListings"
    /\ qres' = DecodeAllListings(Accounts(accts))
    /\ UNCHANGED <<accts, protoVars, metaVars, unitVars>>

RunFetchAllResaleListings ==
    /\ qkind = "none"
    /\ qkind' = "fetchAllResaleListings"
    /\ qres' = DecodeAllResaleListings(Accounts(accts))
    /\ UNCHANGED <<accts, protoVars, metaVars, unitVars>>

RunFetchListingsFromChain ==
    /\ qkind = "none"
    /\ qkind' = "fetchListingsFromChain"
    /\ qres' = fetchListingsFromChain(Accounts(accts))
    /\ UNCHANGED <<accts, protoVars, metaVars, unitVars>>

RunFetchResaleListingsFromChain ==
    /\ qkind = "none"
    /\ qkind' = "fetchResaleListingsFromChain"
    /\ qres' = fetchResaleListingsFromChain(Accounts(accts))
    /\ UNCHANGED <<accts, protoVars, metaVars, unitVars>>

CodecNext ==
    \/ RunFetchAllListings
    \/ RunFetchAllResaleListings
    \/ RunFetchListingsFromChain
    \/ RunFetchResaleListingsFromChain

CodecSpec == CodecInit /\ [][CodecNext]_vars

-----------------------------------------------------------------------------
(* What the wire table says of a buffer, stated without the decoders *)

HasDisc(d, disc) == Len(d) >= 8 /\ SubSeq(d, 1, 8) = disc

\* The offset that follows the uri, for a buffer that holds the uri length.
UriEnd(d) == 76 + ReadUIntLE(d, 72, 4)

\* Every field of the listing layout, the status byte included, is in the buffer.
ListingComplete(d) == Len(d) >= 76 /\ Len(d) >= UriEnd(d) + 30

\* Every field but possibly the final status byte is in the buffer.
ListingReadable(d) == Len(d) >= 76 /\ Len(d) >= UriEnd(d) + 29

ListingStatusByte(d) == d[UriEnd(d) + 30]

ActiveListing(d, disc) ==
    HasDisc(d, disc) /\ ListingComplete(d) /\ ListingStatusByte(d) = 0

ActiveResale(d) ==
    HasDisc(d, RESALE_LISTING_DISCRIMINATOR) /\ Len(d) >= ResaleLen /\ d[ResaleLen] = 1

AcctData(i) == SampleData[accts[i]]

\* The addresses of the accounts that satisfy P, in ledger order.
KeysWhere(P(_)) ==
    LET pos == SelectSeq([i \in 1..Len(accts) |-> i], LAMBDA i : P(AcctData(i)))
    IN  [k \in 1..Len(pos) |-> Key(pos[k])]

\* The addresses a query returned, in order.
ReturnedKeys ==
    IF qres.tag # "list" THEN <<>>
    ELSE [k \in 1..Len(qres.items) |->
            IF qkind \in {"fetchAllListings", "fetchAllResaleListings"}
            THEN qres.items[k].publicKey ELSE qres.items[k].pubkey]

Returned(i) == \E k \in 1..Len(ReturnedKeys) : ReturnedKeys[k] = Key(i)

-----------------------------------------------------------------------------
(* C8 *)

-----------------------------------------------------------------------------
(* C9 *)

\* C9 as stated: each resale query returns exactly the accounts whose first 8
\* bytes are the Resale discriminator and whose active flag is 1; the size
\* test alone never lets an account through.
C9_ResaleExact ==
    qkind \in {"fetchAllResaleListings", "fetchResaleListingsFromChain"} =>
        /\ qres.tag = "list"
        /\ ReturnedKeys = KeysWhere(ActiveResale)

-----------------------------------------------------------------------------
(* C10 *)

\* The accounts a query is meant to return.
ValidFor(kind, d) ==
    CASE kind = "fetchAllListings" ->
           HasDisc(d, royaltyListingDiscriminator) /\ ListingComplete(d)
      [] kind = "fetchListingsFromChain" ->
           ActiveListing(d, ROYALTY_LISTING_DISCRIMINATOR)
      [] kind = "fetchAllResaleListings" -> Len(d) = ResaleLen /\ ActiveResale(d)
      [] kind = "fetchResaleListingsFromChain" -> ActiveResale(d)
      [] OTHER -> FALSE

\* An account of the query's kind that cannot be decoded.
CorruptFor(kind, d) ==
    CASE kind = "fetchAllListings" ->
           HasDisc(d, royaltyListingDiscriminator) /\ ~ListingReadable(d)
      [] kind = "fetchListingsFromChain" ->
           HasDisc(d, ROYALTY_LISTING_DISCRIMINATOR) /\ ~ListingComplete(d)
      [] kind = "fetchResaleListingsFromChain" ->
           HasDisc(d, RESALE_LISTING_DISCRIMINATOR) /\ Len(d) < ResaleLen
      [] OTHER -> FALSE

-----------------------------------------------------------------------------
(* Spec: the browser side.  Queries of lib/solana.ts against the in-memory  *)
(* cache, next to a mutation.                                              *)

CodecIdle ==
    /\ accts = <<>>
    /\ qkind = "none"
    /\ qres = Null

Init == CodecIdle /\ ProtoInit /\ MetaInit /\ UnitIdle

Next ==
    \/ \E p \in Slots, op \in ClientOps, fresh \in BOOLEAN : FetchCall(p, op, fresh)
    \/ \E p \in Slots : FetchResume(p)
    \/ \E p \in Slots : FetchFail(p)
    \/ \E op \in MutationOps : MutStart(op)
    \/ MutSend
    \/ Land
    \/ MutConfirm
    \/ MutThrow
    \/ Tick

Spec == Init /\ [][Next]_vars

-----------------------------------------------------------------------------
(* ApiSpec: the server side.  The GET handlers against Redis, while the    *)
(* mutations of the browsers change the ledger.                            *)

ApiInit ==
    /\ CodecIdle
    /\ now = 0
    /\ chain = 0
    /\ cache = [k \in ClientKeys |-> Miss]
    /\ redis = [k \in RedisKeys |-> Miss]
    /\ redisOn \in BOOLEAN
    /\ procs = [p \in Slots |-> IdleProc]
    /\ mut = IdleMut
    /\ inval = 0
    /\ calls = 0
    /\ MetaInit
    /\ UnitIdle

ApiNext ==
    \/ \E p \in Slots, op \in RouteOps, fresh \in BOOLEAN : RouteStart(p, op, fresh)
    \/ \E p \in Slots : RedisGetServe(p)
    \/ \E p \in Slots : RedisGetReturn(p)
    \/ \E p \in Slots : RouteRpcDone(p)
    \/ \E p \in Slots : RouteRpcFail(p)
    \/ \E p \in Slots : RedisSetDone(p)
    \/ LedgerChange
    \/ Tick

ApiSpec == ApiInit /\ [][ApiNext]_vars

-----------------------------------------------------------------------------
(* MetaSpec: overlapping calls of fetchMetadataFromURI *)

MetaSpecInit == CodecIdle /\ ProtoInit /\ MetaInit /\ UnitIdle

MetaNext ==
    \/ \E p \in Slots, uri \in Uris : LookupCall(p, uri)
    \/ \E p \in Slots, ok \in BOOLEAN, body \in DOMAIN Bodies : DirectResponse(p, ok, body)
    \/ \E p \in Slots : DirectThrow(p)
    \/ \E p \in Slots, ok \in BOOLEAN, body \in DOMAIN Bodies : ProxyResponse(p, ok, body)
    \/ \E p \in Slots : ProxyThrow(p)

MetaSpec == MetaSpecInit /\ [][MetaNext]_vars

-----------------------------------------------------------------------------
(* Properties of the cache-aside protocol *)

\* The step is the return of query p with a result fetched from the network.
FetchReturns(p) ==
    /\ procs[p].pc = "rpc"
    /\ procs'[p].pc = "done"
    /\ procs'[p].src = "network"

\* The step is the call of a non-forced query in slot p.
PlainCall(p) ==
    /\ procs[p].pc \in {"idle", "done"}
    /\ calls' = calls + 1
    /\ procs'[p] # procs[p]
    /\ procs'[p].pc = "rpc" => ~procs'[p].fresh

\* C1: when a client listing query returns the result of a successful network
\* fetch, the cache holds that result under the query's key.
C1_FetchPopulatesCache ==
    [][\A p \in Slots :
         FetchReturns(p) =>
            /\ cache'[ClientKey(procs[p].op)] # Miss
            /\ cache'[ClientKey(procs[p].op)].value = procs'[p].res]_vars

\* C2: a mutation returns its transaction id only from the confirmed state and
\* both listing keys are empty when it does; a mutation that throws leaves
\* both caches as they were.
C2_ConfirmedInvalidates ==
    [][/\ (mut.pc # "done" /\ mut'.pc = "done") =>
             /\ mut.pc = "landed"
             /\ \A k \in ClientKeys : cache'[k] = Miss
       /\ (mut.pc # "failed" /\ mut'.pc = "failed") =>
             /\ cache' = cache
             /\ redis' = redis]_vars

\* A mutation has returned after a resale query had filled the cache, and the
\* key is empty.
C2_Witness ==
    /\ mut.pc = "done"
    /\ inval = chain
    /\ cache["ALL_RESALE_LISTINGS"] = Miss
    /\ \E p \in Slots :
         /\ procs[p].pc = "done"
         /\ procs[p].op = "fetchAllResaleListings"
         /\ procs[p].src = "network"
         /\ procs[p].res.ver < inval

\* C3: a non-forced query that is answered from the cache is never answered
\* with a set read before the latest confirmed mutation.
C3_QueryAfterMutationGoesToNetwork ==
    [][\A p \in Slots :
         (PlainCall(p) /\ procs'[p].pc = "done" /\ procs'[p].src = "cache") =>
            procs'[p].res.ver >= inval]_vars

\* C4: a non-forced query called while its key holds an entry younger than the
\* ttl returns the entry's value and asks the network nothing; called with no
\* entry, or with one older than the ttl, it goes to the network; the passing
\* of time alone removes nothing from the cache.
C4_LazyExactExpiry ==
    [][/\ \A p \in Slots :
            PlainCall(p) /\ procs'[p].op \in ClientOps =>
               LET e == cache[ClientKey(procs'[p].op)]
               IN  /\ (e # Miss /\ now - e.at < e.ttl) =>
                         /\ procs'[p].pc = "done"
                         /\ procs'[p].src = "cache"
                         /\ procs'[p].res = e.value
                   /\ (e = Miss \/ now - e.at > e.ttl) => procs'[p].pc = "rpc"
       /\ now' # now => cache' = cache]_vars

\* A non-forced resale query is at the network although the key holds an entry
\* (written by the slot's previous query, no other slot having run): the entry
\* had outlived its ttl when the query was called.
C4_Witness ==
    \E p \in Slots :
       /\ procs[p].pc = "rpc"
       /\ procs[p].op = "fetchAllResaleListings"
       /\ ~procs[p].fresh
       /\ \A q \in Slots \ {p} : procs[q].pc = "idle"
       /\ cache["ALL_RESALE_LISTINGS"] # Miss
       /\ now - cache["ALL_RESALE_LISTINGS"].at > cache["ALL_RESALE_LISTINGS"].ttl

\* C6: the cache never holds a set read before the latest confirmed mutation.
C6_NoSupersededFill ==
    \A k \in ClientKeys : cache[k] # Miss => cache[k].value.ver >= inval

\* The ttl the routes' entries are written with, by key.
RedisKeyTTL(k) == IF k = "listings:primary" THEN REDIS_TTL_LISTINGS ELSE REDIS_TTL_RESALE

\* C5 as stated: a set that a route returns from the cache was fetched from
\* the network at most one ttl before the return.
C5_FetchedWithinTTL ==
    [][\A p \in Slots :
         (procs[p].pc = "redisGot" /\ procs'[p].pc = "done" /\ procs'[p].src = "cache") =>
            now - procs'[p].res.got <= RedisKeyTTL(RouteKey(procs[p].op))]_vars

\* C5: a set that Redis serves to a route was written to Redis less than one
\* ttl before, and was fetched from the network no later than it was written.
C5_WrittenWithinTTL ==
    [][\A p \in Slots :
         (procs[p].pc = "redisGet" /\ procs'[p].pc = "redisGot" /\ procs'[p].res # Miss) =>
            LET e == redis[RouteKey(procs[p].op)]
            IN  /\ e # Miss
                /\ procs'[p].res = e.value
                /\ now - e.at < RedisKeyTTL(RouteKey(procs[p].op))
                /\ e.value.got <= e.at]_vars

\* Redis has served a set it still holds, written less than a ttl ago and
\* fetched more than a ttl ago.
C5_Witness ==
    \E p \in Slots :
       LET e == redis[RouteKey(procs[p].op)]
       IN  /\ procs[p].pc = "redisGot"
           /\ procs[p].res # Miss
           /\ e # Miss
           /\ e.value = procs[p].res
           /\ now - e.at < RedisKeyTTL(RouteKey(procs[p].op))
           /\ now - procs[p].res.got > RedisKeyTTL(RouteKey(procs[p].op))

-----------------------------------------------------------------------------
(* Properties of the metadata memo *)

\* Lookup p has returned a result it fetched and stored.
Stored(p) == lookups[p].pc = "done" /\ lookups[p].src \in {"direct", "proxy"}

\* C7: when a lookup stores the result of its fetch, the memo's entry for its
\* URI is exactly that result, whatever the entry was before, and no other
\* entry changes.
C7_LastSetWins ==
    [][\A p \in Slots :
         (lookups[p].pc \in {"direct", "proxy"} /\ lookups'[p].pc = "done"
            /\ lookups'[p].src \in {"direct", "proxy"}) =>
               /\ \E body \in DOMAIN Bodies : lookups'[p].result = FromJson(Bodies[body])
               /\ metadataCache' =
                     [metadataCache EXCEPT ![lookups[p].uri] = lookups'[p].result]]_vars

\* Two lookups of one URI both missed, both fetched and both stored, with
\* different results; the memo holds one of the two.
C7_Witness ==
    /\ Stored(1)
    /\ Stored(2)
    /\ lookups[1].uri = lookups[2].uri
    /\ lookups[1].result # lookups[2].result
    /\ metadataCache[lookups[1].uri] \in {lookups[1].result, lookups[2].result}

-----------------------------------------------------------------------------
(* DecodeSpec: each account decoder applied to one buffer.  The buffers are *)
(* listing and resale accounts laid out as the wire table says, whole, cut  *)
(* short at every length, with a uri length that overruns the buffer, or    *)
(* with one discriminator byte changed.                                    *)

\* Bytes a uri length field may claim beyond the end of the buffer.
MaxExcess == 2

Int64(s, m) == [s |-> s, m |-> m]

\* A value below 2^31 as a 64-bit integer.
Small(n) == Int64(1, Mag(LE(n, 8)))

\* 2^53 + 1, the first integer a double cannot hold.
Pow53Plus1 == Int64(1, <<1, 0, 0, 0, 0, 0, 32>>)

\* 2^64 - 1
MaxU64 == Int64(1, [i \in 1..8 |-> 255])

\* The 8 little-endian bytes of an unsigned 64-bit value.
U64Bytes(x) == x.m \o [i \in 1..(8 - Len(x.m)) |-> 0]

\* The 8 little-endian bytes of a signed 64-bit value, two's complement.
I64Bytes(x) == IF x.s = -1 THEN Negate(U64Bytes(x), FALSE) ELSE U64Bytes(x)

\* The values of a listing's fields.
ListingFields(uri, bps, dur, created, price, resale, roy, status) ==
    [creator |-> Key(11), mint |-> Key(12), uri |-> uri, bps |-> bps, dur |-> dur,
     created |-> created, price |-> price, resale |-> resale, roy |-> roy,
     status |-> status]

\* The account that holds them.
ListingOf(disc, f) ==
    ListingBytes(disc, f.creator, f.mint, f.uri, f.bps, U64Bytes(f.dur),
                 I64Bytes(f.created), U64Bytes(f.price), f.resale, f.roy, f.status)

\* The values of a resale account's fields, and the account.
ResaleFields(price, listedAt, active) ==
    [seller |-> Key(21), listing |-> Key(22), mint |-> Key(12), price |-> price,
     listedAt |-> listedAt, active |-> active]

ResaleOf(disc, f) ==
    ResaleBytes(disc, f.seller, f.listing, f.mint, U64Bytes(f.price),
                I64Bytes(f.listedAt), f.active)

PlainListing ==
    ListingFields(SampleUri, 2500, Small(86400), Small(1700000000), Small(5000000), 1, 500, 0)

PlainResale == ResaleFields(Small(7000000), Small(1700000500), 1)

ListingFieldSets ==
    {ListingFields(uri, bps, dur, created, price, resale, 500, status) :
        uri \in {<<>>, SampleUri}, bps \in {0, 2500, 10000},
        dur \in {Small(0), Small(86400), Pow53Plus1},
        created \in {Small(1700000000), Int64(-1, <<1>>)},
        price \in {Small(5000000), Pow53Plus1, MaxU64},
        resale \in {0, 1}, status \in {0, 3}}
    \cup {[PlainListing EXCEPT !.status = b] : b \in 0..255}

ResaleFieldSets ==
    {ResaleFields(price, listedAt, active) :
        price \in {Small(7000000), Pow53Plus1, MaxU64},
        listedAt \in {Small(1700000500), Int64(-1, <<1>>)}, active \in {0, 1}}

\* The discriminator each decoder expects.
DiscOf(decoder) ==
    IF decoder = "fetchAllListings" THEN royaltyListingDiscriminator
    ELSE IF decoder = "parseListingAccount" THEN ROYALTY_LISTING_DISCRIMINATOR
    ELSE RESALE_LISTING_DISCRIMINATOR

ListingDecoders == {"fetchAllListings", "parseListingAccount"}

Decoders == ListingDecoders \cup {"parseResaleListingAccount"}

\* The account of decoder for's kind that holds f.
Built(for, f) == IF for \in ListingDecoders THEN ListingOf(DiscOf(for), f) ELSE ResaleOf(DiscOf(for), f)

Plain(for) == IF for \in ListingDecoders THEN PlainListing ELSE PlainResale

\* data with the uri length field rewritten to n.
WithUriLength(data, n) == SubSeq(data, 1, 72) \o LE(n, 4) \o SubSeq(data, 77, Len(data))

\* data with discriminator byte j changed.
WithDiscByte(data, j) == [data EXCEPT ![j] = (data[j] + 1) % 256]

\* An input: the decoder it was built for, the field values, how the buffer
\* was made, and the buffer.
Input(for, f, shape, data) == [for |-> for, fields |-> f, shape |-> shape, data |-> data]

DecodeInputs ==
    {Input(for, f, "whole", ListingOf(DiscOf(for), f)) :
        for \in ListingDecoders, f \in ListingFieldSets}
    \cup {Input("parseResaleListingAccount", f, "whole",
                ResaleOf(RESALE_LISTING_DISCRIMINATOR, f)) : f \in ResaleFieldSets}
    \cup UNION {{Input(for, Plain(for), "cut", SubSeq(Built(for, Plain(for)), 1, n)) :
                    n \in 0..(Len(Built(for, Plain(for))) - 1)} : for \in Decoders}
    \cup {Input(for, PlainListing, "overlong",
                WithUriLength(ListingOf(DiscOf(for), PlainListing),
                              Len(ListingOf(DiscOf(for), PlainListing)) - 76 + k)) :
             for \in ListingDecoders, k \in 1..MaxExcess}
    \cup UNION {{Input(for, Plain(for), "foreign",
                       SubSeq(WithDiscByte(Built(for, Plain(for)), j), 1, n)) :
                    j \in 1..8, n \in {8, 40, 90, Len(Built(for, Plain(for)))}} :
                for \in Decoders}

\* The account handed to a decoder.
ArgAccount == [pubkey |-> Key(1), data |-> arg.data]

\* fetchAllListings on one account: the filter, then the map callback.
ListingOutcome(account) ==
    IF ~IsRoyaltyListingAccount(account) THEN Null ELSE ParseListing(account)

DecodeInit ==
    /\ CodecIdle
    /\ ProtoInit
    /\ MetaInit
    /\ arg \in DecodeInputs
    /\ call = "none"
    /\ ret = Null

RunListingCallback ==
    /\ call = "none"
    /\ call' = "fetchAllListings"
    /\ ret' = ListingOutcome(ArgAccount)
    /\ UNCHANGED <<arg, codecVars, protoVars, metaVars>>

RunParseListingAccount ==
    /\ call = "none"
    /\ call' = "parseListingAccount"
    /\ ret' = parseListingAccount(ArgAccount.pubkey, ArgAccount.data)
    /\ UNCHANGED <<arg, codecVars, protoVars, metaVars>>

RunParseResaleListingAccount ==
    /\ call = "none"
    /\ call' = "parseResaleListingAccount"
    /\ ret' = parseResaleListingAccount(ArgAccount.pubkey, ArgAccount.data)
    /\ UNCHANGED <<arg, codecVars, protoVars, metaVars>>

DecodeNext ==
    \/ RunListingCallback
    \/ RunParseListingAccount
    \/ RunParseResaleListingAccount

DecodeSpec == DecodeInit /\ [][DecodeNext]_vars

\* The decoder that has run was handed a buffer of its own kind of this shape.
OwnInput(shapes) == call \in Decoders /\ arg.for = call /\ arg.shape \in shapes

\* What the decoder that has run does on data when nothing catches its exceptions.
UncaughtOutcome(decoder, account) ==
    IF decoder = "fetchAllListings"
    THEN IF ~IsRoyaltyListingAccount(account) THEN Null ELSE ParseListingUncaught(account)
    ELSE IF decoder = "parseListingAccount"
    THEN parseListingAccountUncaught(account.pubkey, account.data)
    ELSE parseResaleListingAccountBody(account.pubkey, account.data)

\* The fields of a decoded listing under the wire table's names.
DecodedListing(decoder, r) ==
    IF decoder = "fetchAllListings"
    THEN [creator |-> r.creator, mint |-> r.nftMint, uri |-> r.metadataUri,
          bps |-> r.percentageBps, dur |-> r.durationSeconds,
          created |-> r.startTimestamp, price |-> r.price,
          resale |-> r.resaleAllowed, roy |-> r.creatorRoyaltyBps]
    ELSE [creator |-> r.creator, mint |-> r.nftMint, uri |-> r.metadataUri,
          bps |-> r.percentageBps, dur |-> r.durationSeconds,
          created |-> r.createdAt, price |-> r.price,
          resale |-> r.resaleAllowed, roy |-> r.resaleRoyaltyBps]

\* The same view of the values the buffer was built from.
PlacedListing(f) ==
    [creator |-> f.creator, mint |-> f.mint, uri |-> f.uri, bps |-> f.bps,
     dur |-> f.dur, created |-> f.created, price |-> f.price,
     resale |-> (f.resale = 1), roy |-> f.roy]

\* The 64-bit fields of a decoded record, and of the values placed.
Decoded64(decoder, r) ==
    IF decoder = "parseResaleListingAccount"
    THEN <<r.price, r.createdAt>>
    ELSE <<DecodedListing(decoder, r).dur, DecodedListing(decoder, r).created,
           DecodedListing(decoder, r).price>>

Placed64(decoder, f) ==
    IF decoder = "parseResaleListingAccount" THEN <<f.price, f.listedAt>>
    ELSE <<f.dur, f.created, f.price>>

\* C11: a listing or resale buffer that carries the right discriminator and
\* is cut short at any length, the one just before the final status byte
\* included, or whose uri length runs past the end of the buffer, decodes to
\* no record (Corrupt): never to a record with defaulted fields.
C11_TruncatedIsCorrupt ==
    (OwnInput({"cut", "overlong"}) /\ Len(arg.data) >= 8) => ret = Null

C13_FieldsAsPlaced ==
    (call \in ListingDecoders /\ OwnInput({"whole"}))
        => /\ ret # Null
           /\ DecodedListing(call, ret) = PlacedListing(arg.fields)

\* C14: the status byte decodes 0 to Active, 1 to Sold, 2 to Cancelled, 3 to
\* Expired and 4..255 to Unknown without failing, the same in every listing
\* decoder.
C14_StatusMapping ==
    (call \in ListingDecoders /\ OwnInput({"whole"}))
        => /\ ret # Null
           /\ ret.status = StatusName(<<arg.fields.status>>, 0)
           /\ arg.fields.status = 3 => ret.status = "Expired"
           /\ arg.fields.status >= 4 => ret.status = "Unknown"

\* C15: every 64-bit field decodes to exactly the integer that was encoded,
\* values above 2^53 and negative timestamps included.
C15_Exact64 ==
    OwnInput({"whole"})
        => /\ ret # Null
           /\ Decoded64(call, ret) = Placed64(call, arg.fields)

-----------------------------------------------------------------------------
(* LookupSpec: the single-account lookups, each on one outcome of          *)
(* connection.getAccountInfo: no account at the address, an account, or a  *)
(* rejected request.                                                       *)

\* getAccountInfo resolved to null.
NoAccount == [tag |-> "absent"]

\* getAccountInfo rejected.
Rejected == [tag |-> "rejected"]

AccountInfo(data) == [tag |-> "account", data |-> data]

\* A boolean result.
Bool(b) == [tag |-> "bool", value |-> b]

\* a < b for two 8-digit magnitudes.
Less(a, b) == \E i \in 1..8 : a[i] < b[i] /\ \A j \in (i + 1)..8 : a[j] = b[j]

\* a - b on digits, a >= b.
RECURSIVE SubDigits(_, _, _)
SubDigits(a, b, borrow) ==
    IF a = <<>> THEN <<>>
    ELSE LET v == a[1] - b[1] - borrow
         IN  IF v < 0 THEN <<v + 256>> \o SubDigits(Tail(a), Tail(b), 1)
             ELSE <<v>> \o SubDigits(Tail(a), Tail(b), 0)

\* x - y on two non-negative bigints.
BigSub(x, y) ==
    IF Less(U64Bytes(x), U64Bytes(y))
    THEN Int64(-1, Mag(SubDigits(U64Bytes(y), U64Bytes(x), 0)))
    ELSE Int64(1, Mag(SubDigits(U64Bytes(x), U64Bytes(y), 0)))

\* The values of a payout pool's fields, and the account that holds them.
PoolFields(deposited, claimed, depositedAt, period) ==
    [listing |-> Key(22), creator |-> Key(11), deposited |-> deposited,
     claimed |-> claimed, depositedAt |-> depositedAt, period |-> period]

PoolBytes(f) ==
    OtherDiscriminator \o f.listing \o f.creator \o U64Bytes(f.deposited)
        \o U64Bytes(f.claimed) \o I64Bytes(f.depositedAt) \o U64Bytes(f.period)

PlainPool == PoolFields(Small(5000000), Small(2000000), Small(1700000900), Small(1))

PoolFieldSets ==
    {PoolFields(deposited, claimed, depositedAt, period) :
        deposited \in {Small(0), Small(5000000), Pow53Plus1, MaxU64},
        claimed \in {Small(0), Small(2000000), Small(5000000), Small(9000000), MaxU64},
        depositedAt \in {Small(1700000900), Int64(-1, <<1>>)},
        period \in {Small(0), Small(1)}}

\* The body of fetchPayoutPool's try block after the await.
fetchPayoutPoolBody(pda, info) ==
    IF info = Rejected THEN Throw
    ELSE IF info = NoAccount THEN Null
    ELSE LET data == info.data
         IN  IF \/ ~CanRead(data, 72, 8)  \/ ~CanRead(data, 80, 8)
                \/ ~CanRead(data, 88, 8)  \/ ~CanRead(data, 96, 8)
             THEN Throw
             ELSE LET totalDeposited == ReadBigUInt64LE(data, 72)
                      totalClaimed   == ReadBigUInt64LE(data, 80)
                  IN  [tag              |-> "rec",
                       publicKey        |-> pda,
                       royaltyListing   |-> PublicKey(Slice(data, 8, 40)),
                       creator          |-> PublicKey(Slice(data, 40, 72)),
                       totalDeposited   |-> Number(totalDeposited),
                       totalClaimed     |-> Number(totalClaimed),
                       availableToClaim |-> Number(BigSub(totalDeposited, totalClaimed)),
                       depositedAt      |-> Number(ReadBigInt64LE(data, 88)),
                       period           |-> Number(ReadBigUInt64LE(data, 96))]

\* try { body } catch (error) { return null }
fetchPayoutPool(pda, info) ==
    LET r == fetchPayoutPoolBody(pda, info)
    IN  IF r = Throw THEN Null ELSE r

fetchUserResaleListingBody(pda, info) ==
    IF info = Rejected THEN Throw
    ELSE IF info = NoAccount THEN Null
    ELSE LET data == info.data
         IN  IF ~CanRead(data, 104, 8) \/ ~CanRead(data, 112, 8) THEN Throw
             ELSE [tag            |-> "rec",
                   publicKey      |-> pda,
                   seller         |-> PublicKey(Slice(data, 8, 40)),
                   royaltyListing |-> PublicKey(Slice(data, 40, 72)),
                   nftMint        |-> PublicKey(Slice(data, 72, 104)),
                   price          |-> Number(ReadBigUInt64LE(data, 104)),
                   listedAt       |-> Number(ReadBigInt64LE(data, 112))]

fetchUserResaleListing(pda, info) ==
    LET r == fetchUserResaleListingBody(pda, info)
    IN  IF r = Throw THEN Null ELSE r

\* A fetchPlatformConfig that does not test the account.
fetchPlatformConfigAlways(pda, info) ==
    IF info = Rejected THEN Null
    ELSE [tag |-> "rec", address |-> pda, exists |-> TRUE]

fetchPlatformConfig(pda, info) ==
    IF info = Rejected THEN Null
    ELSE IF info = NoAccount THEN Null
    ELSE [tag |-> "rec", address |-> pda, exists |-> TRUE]

isPlatformInitialized(info) ==
    IF info = Rejected THEN Bool(FALSE) ELSE Bool(info # NoAccount)

\* listings.find(l => l.publicKey === listingPubkey) || null
fetchListing(listings, listingPubkey) ==
    IF \E i \in 1..Len(listings) : listings[i].publicKey = listingPubkey
    THEN listings[CHOOSE i \in 1..Len(listings) :
                      /\ listings[i].publicKey = listingPubkey
                      /\ \A j \in 1..(i - 1) : listings[j].publicKey # listingPubkey]
    ELSE Null

\* The body of fetchResaleListing's try block; listings is what the nested
\* fetchAllListings() resolves to.
fetchResaleListingBody(pubkey, info, listings) ==
    IF info = Rejected THEN Throw
    ELSE IF info = NoAccount THEN Null
    ELSE LET data == info.data
         IN  IF Len(data) # ResaleLen THEN Null
             ELSE [tag             |-> "rec",
                   publicKey       |-> pubkey,
                   seller          |-> PublicKey(Slice(data, 8, 40)),
                   royaltyListing  |-> PublicKey(Slice(data, 40, 72)),
                   nftMint         |-> PublicKey(Slice(data, 72, 104)),
                   price           |-> Number(ReadBigUInt64LE(data, 104)),
                   listedAt        |-> Number(ReadBigInt64LE(data, 112)),
                   isResale        |-> TRUE,
                   originalListing |-> fetchListing(listings, PublicKey(Slice(data, 40, 72)))]

fetchResaleListing(pubkey, info, listings) ==
    LET r == fetchResaleListingBody(pubkey, info, listings)
    IN  IF r = Throw THEN Null ELSE r

\* What fetchAllListings() can resolve to: the decoded ledger, or [] after a
\* failed request.
ListingsResults == {AllListingsAt[0].items, <<>>}

\* The address a lookup derives.
Pda == Key(5)

LookupCalls ==
    {"fetchPayoutPool", "fetchUserResaleListing", "fetchPlatformConfig",
     "isPlatformInitialized"}

LookupInputs ==
    {NoAccount, Rejected}
    \cup {AccountInfo(PoolBytes(f)) : f \in PoolFieldSets}
    \cup {AccountInfo(SubSeq(PoolBytes(PlainPool), 1, n)) : n \in 0..(Len(PoolBytes(PlainPool)) - 1)}
    \cup {AccountInfo(ResaleOf(RESALE_LISTING_DISCRIMINATOR, f)) : f \in ResaleFieldSets}

LookupInit ==
    /\ CodecIdle
    /\ ProtoInit
    /\ MetaInit
    /\ arg \in LookupInputs
    /\ call = "none"
    /\ ret = Null

RunFetchPayoutPool ==
    /\ call = "none"
    /\ call' = "fetchPayoutPool"
    /\ ret' = fetchPayoutPool(Pda, arg)
    /\ UNCHANGED <<arg, codecVars, protoVars, metaVars>>

RunFetchUserResaleListing ==
    /\ call = "none"
    /\ call' = "fetchUserResaleListing"
    /\ ret' = fetchUserResaleListing(Pda, arg)
    /\ UNCHANGED <<arg, codecVars, protoVars, metaVars>>

RunFetchPlatformConfig ==
    /\ call = "none"
    /\ call' = "fetchPlatformConfig"
    /\ ret' = fetchPlatformConfig(Pda, arg)
    /\ UNCHANGED <<arg, codecVars, protoVars, metaVars>>

RunIsPlatformInitialized ==
    /\ call = "none"
    /\ call' = "isPlatformInitialized"
    /\ ret' = isPlatformInitialized(arg)
    /\ UNCHANGED <<arg, codecVars, protoVars, metaVars>>

RunFetchResaleListing ==
    /\ call = "none"
    /\ call' = "fetchResaleListing"
    /\ \E listings \in ListingsResults : ret' = fetchResaleListing(Pda, arg, listings)
    /\ UNCHANGED <<arg, codecVars, protoVars, metaVars>>

LookupNext ==
    \/ RunFetchPayoutPool
    \/ RunFetchResaleListing
    \/ RunFetchUserResaleListing
    \/ RunFetchPlatformConfig
    \/ RunIsPlatformInitialized

LookupSpec == LookupInit /\ [][LookupNext]_vars

\* C16: fetchPayoutPool never returns a negative availableToClaim: a pool
\* whose total claimed exceeds its total deposited is reported as an
\* invariant violation, not as a pool record.
C16_NeverNegative ==
    (call = "fetchPayoutPool" /\ ret # Null) => ret.availableToClaim.s = 1

\* C20: looking up an address that holds no account yields NotFound and no
\* exception: fetchPayoutPool, fetchUserResaleListing and fetchPlatformConfig
\* return null, isPlatformInitialized returns false.
C20_AbsentIsNotFound ==
    (call \in LookupCalls /\ arg = NoAccount)
        => ret = IF call = "isPlatformInitialized" THEN Bool(FALSE) ELSE Null

C20_Witness ==
    /\ arg = NoAccount
    /\ call = "fetchPlatformConfig"
    /\ ret = Null

-----------------------------------------------------------------------------
(* EncodeSpec: the seven transaction builders, step by step from the call  *)
(* to the confirmation, and the create form's handleSubmit in front of      *)
(* createRoyaltyListing.  Strings are sequences of code points.            *)

\* Buffer.from(text, 'utf8') for code points below 2048.
RECURSIVE Utf8(_)
Utf8(t) ==
    IF t = <<>> THEN <<>>
    ELSE IF Len(t) = 1
    THEN IF t[1] < 128 THEN <<t[1]>>
         ELSE <<192 + (t[1] \div 64), 128 + (t[1] % 64)>>
    ELSE Utf8(SubSeq(t, 1, Len(t) \div 2)) \o Utf8(SubSeq(t, Len(t) \div 2 + 1, Len(t)))

\* The character of a base64 digit.
Base64Char(d) ==
    IF d < 26 THEN 65 + d
    ELSE IF d < 52 THEN 97 + (d - 26)
    ELSE IF d < 62 THEN 48 + (d - 52)
    ELSE IF d = 62 THEN 43 ELSE 47

\* buffer.toString('base64'): four characters for every three bytes, the
\* last group padded with '='.
Base64(b) ==
    LET Byte(k) == IF k <= Len(b) THEN b[k] ELSE 0
        Group(j) == Byte(3 * j - 2) * 65536 + Byte(3 * j - 1) * 256 + Byte(3 * j)
    IN  [i \in 1..(4 * ((Len(b) + 2) \div 3)) |->
            LET j == (i + 3) \div 4
                k == (i - 1) % 4
            IN  IF k = 0 THEN Base64Char(Group(j) \div 262144)
                ELSE IF k = 1 THEN Base64Char((Group(j) \div 4096) % 64)
                ELSE IF k = 2
                THEN IF 3 * j - 1 <= Len(b) THEN Base64Char((Group(j) \div 64) % 64) ELSE 61
                ELSE IF 3 * j <= Len(b) THEN Base64Char(Group(j) % 64) ELSE 61]

\* text.slice(0, n)
StrSlice(t, n) == SubSeq(t, 1, Min(n, Len(t)))

\* n times the letter a.
Letters(n) == [i \in 1..n |-> 97]

\* The metadata object handleSubmit builds from the form.
FormMetadata(form) ==
    [source      |-> form.revenueSource,
     work        |-> StrSlice(form.workIdentifier, 100),
     description |-> StrSlice(form.description, 200),
     imageUrl    |-> StrSlice(form.imageUrl, 200)]

\* JSON.stringify(metadata), for field values that need no escaping.
MetadataJson(m) ==
    <<123, 34, 115, 111, 117, 114, 99, 101, 34, 58, 34>> \o m.source
    \o <<34, 44, 34, 119, 111, 114, 107, 34, 58, 34>> \o m.work
    \o <<34, 44, 34, 100, 101, 115, 99, 114, 105, 112, 116, 105, 111, 110, 34, 58, 34>> \o m.description
    \o <<34, 44, 34, 105, 109, 97, 103, 101, 85, 114, 108, 34, 58, 34>> \o m.imageUrl
    \o <<34, 125>>

\* `data:application/json;base64,${Buffer.from(metadataJson).toString('base64')}`
MetadataUriOf(m) ==
    <<100, 97, 116, 97, 58, 97, 112, 112, 108, 105, 99, 97, 116, 105, 111, 110, 47, 106, 115, 111, 110, 59, 98, 97, 115, 101, 54, 52, 44>>
    \o Base64(Utf8(MetadataJson(m)))

\* The contract args handleSubmit converts the form to, for whole numbers
\* in the number fields (Math.floor(Number(text) * 100) is then text * 100).
FormArgs(form) ==
    [metadataUri       |-> MetadataUriOf(FormMetadata(form)),
     percentageBps     |-> form.percentageSold * 100,
     durationSeconds   |-> Small(form.duration * 30 * 24 * 60 * 60),
     price             |-> Small(form.price * 1000000),
     resaleAllowed     |-> form.allowResale,
     creatorRoyaltyBps |-> form.resaleRoyalty * 100]

\* writeUInt16LE / writeBigUInt64LE throw a RangeError outside their range.
FitsU16(n) == n \in 0..65535

FitsU64(x) == (x.s = 1 \/ x.m = <<>>) /\ Len(x.m) <= 8

createListingDiscriminator == <<18, 168, 45, 24, 191, 31, 117, 54>>

\* An instruction data that puts the price in front of the percentage.
CreateListingDataPriceFirst(a) ==
    IF \/ ~FitsU16(a.percentageBps) \/ ~FitsU16(a.creatorRoyaltyBps)
       \/ ~FitsU64(a.durationSeconds) \/ ~FitsU64(a.price)
    THEN Throw
    ELSE createListingDiscriminator
         \o LE(Len(Utf8(a.metadataUri)), 4) \o Utf8(a.metadataUri)
         \o U64Bytes(a.price)
         \o LE(a.percentageBps, 2)
         \o U64Bytes(a.durationSeconds)
         \o <<IF a.resaleAllowed THEN 1 ELSE 0>>
         \o LE(a.creatorRoyaltyBps, 2)

\* The instruction data of createRoyaltyListing, or Throw.
CreateListingData(a) ==
    IF \/ ~FitsU16(a.percentageBps) \/ ~FitsU16(a.creatorRoyaltyBps)
       \/ ~FitsU64(a.durationSeconds) \/ ~FitsU64(a.price)
    THEN Throw
    ELSE createListingDiscriminator
         \o LE(Len(Utf8(a.metadataUri)), 4) \o Utf8(a.metadataUri)
         \o LE(a.percentageBps, 2)
         \o U64Bytes(a.durationSeconds)
         \o U64Bytes(a.price)
         \o <<IF a.resaleAllowed THEN 1 ELSE 0>>
         \o LE(a.creatorRoyaltyBps, 2)

\* The discriminators of the other builders.
Discriminator(op) ==
    IF op = "createRoyaltyListing" THEN createListingDiscriminator
    ELSE IF op = "buyRoyaltyListing" THEN <<115, 149, 42, 108, 44, 49, 140, 153>>
    ELSE IF op = "depositPayout" THEN <<72, 20, 41, 177, 158, 74, 219, 104>>
    ELSE IF op = "claimPayout" THEN <<127, 240, 132, 62, 227, 198, 146, 133>>
    ELSE IF op = "listForResale" THEN <<235, 101, 201, 204, 83, 163, 213, 243>>
    ELSE IF op = "buyResaleListing" THEN <<241, 32, 167, 60, 46, 70, 159, 105>>
    ELSE <<215, 11, 117, 119, 200, 163, 110, 66>>

\* BigInt(Math.floor(usdc * 1_000_000)) written with writeBigUInt64LE, for
\* a whole number of USDC.
AmountData(op, usdc) ==
    IF usdc < 0 THEN Throw
    ELSE Discriminator(op) \o U64Bytes(Small(usdc * 1000000))

\* The data of the instruction an operation builds.
InstructionData(op, a) ==
    IF op = "createRoyaltyListing" THEN CreateListingData(a)
    ELSE IF op = "depositPayout" THEN AmountData(op, a.amountUsdc)
    ELSE IF op = "listForResale" THEN AmountData(op, a.priceUsdc)
    ELSE Discriminator(op)

EncodeOps ==
    {"createRoyaltyListing", "buyRoyaltyListing", "depositPayout", "claimPayout",
     "listForResale", "buyResaleListing", "cancelResale"}

\* The builders that await account reads before they build the instruction,
\* and those among them that also fetch the blockhash before it.
ReadFirstOps == {"buyRoyaltyListing", "claimPayout", "buyResaleListing", "cancelResale"}

BlockhashFirstOps == {"buyRoyaltyListing", "buyResaleListing"}

\* 2^64, one more than writeBigUInt64LE accepts.
Pow64 == Int64(1, <<0, 0, 0, 0, 0, 0, 0, 0, 1>>)

\* A uri with a character outside ASCII.
AccentedUri == <<105, 112, 102, 115, 58, 47, 47, 233>>

CreateArgs ==
    [metadataUri : {<<>>, AccentedUri, Letters(500), Letters(501)},
     percentageBps : {0, 2500, 10000, 10001, 65535, 65536},
     durationSeconds : {Small(0), Small(31104000)},
     price : {Small(5000000), MaxU64, Pow64},
     resaleAllowed : BOOLEAN,
     creatorRoyaltyBps : {0, 500, 10001}]

Forms ==
    [ready : BOOLEAN,
     revenueSource : {Letters(7)},
     workIdentifier : {Letters(5), Letters(120)},
     description : {Letters(10), Letters(250)},
     imageUrl : {<<>>, Letters(200)},
     percentageSold : {1, 100, 101, 656},
     duration : {0, 12},
     price : {5},
     resaleRoyalty : {0, 10, 101},
     allowResale : {TRUE}]

EncodeInputs ==
    {[op |-> "handleSubmit", form |-> f] : f \in Forms}
    \cup {[op |-> "createRoyaltyListing", args |-> a] : a \in CreateArgs}
    \cup {[op |-> "depositPayout", args |-> [amountUsdc |-> n]] : n \in {-1, 0, 5}}
    \cup {[op |-> "listForResale", args |-> [priceUsdc |-> n]] : n \in {-1, 0, 7}}
    \cup {[op |-> o, args |-> Null] : o \in ReadFirstOps}

\* The builder that runs: handleSubmit calls createRoyaltyListing.
Op == IF arg.op = "handleSubmit" THEN "createRoyaltyListing" ELSE arg.op

\* A call in progress: its args, the instruction data once built, and the
\* number of network steps begun.
Progress(args, payload, network) == [args |-> args, payload |-> payload, network |-> network]

EncodeInit ==
    /\ CodecIdle
    /\ ProtoInit
    /\ MetaInit
    /\ arg \in EncodeInputs
    /\ call = "none"
    /\ ret = Progress(Null, Null, 0)

\* handleSubmit up to the call of createRoyaltyListing: the three guards,
\* the conversion, the size check.
HandleSubmit ==
    /\ call = "none"
    /\ arg.op = "handleSubmit"
    /\ IF ~arg.form.ready \/ Len(FormArgs(arg.form).metadataUri) > 500
       THEN call' = "toast" /\ ret' = ret
       ELSE call' = "args" /\ ret' = Progress(FormArgs(arg.form), Null, 0)
    /\ UNCHANGED <<arg, codecVars, protoVars, metaVars>>

\* A builder called directly.
Enter ==
    /\ call = "none"
    /\ arg.op \in EncodeOps
    /\ call' = "args"
    /\ ret' = Progress(arg.args, Null, 0)
    /\ UNCHANGED <<arg, codecVars, protoVars, metaVars>>

\* The awaited reads in front of the instruction.
ReadAccounts ==
    /\ call = "args"
    /\ Op \in ReadFirstOps
    /\ call' = "read"
    /\ ret' = [ret EXCEPT !.network = 1]
    /\ UNCHANGED <<arg, codecVars, protoVars, metaVars>>

\* The instruction data is built, or a write throws.
Build ==
    /\ \/ call = "args" /\ Op \notin ReadFirstOps
       \/ call = "read"
    /\ LET data == InstructionData(Op, ret.args)
       IN  IF data = Throw
           THEN call' = "thrown" /\ ret' = ret
           ELSE call' = "built" /\ ret' = [ret EXCEPT !.payload = data]
    /\ UNCHANGED <<arg, codecVars, protoVars, metaVars>>

\* await connection.getLatestBlockhash()
GetLatestBlockhash ==
    /\ call = "built"
    /\ Op \notin BlockhashFirstOps
    /\ call' = "blockhash"
    /\ ret' = [ret EXCEPT !.network = @ + 1]
    /\ UNCHANGED <<arg, codecVars, protoVars, metaVars>>

\* await provider.wallet.signTransaction(tx)
SignTransaction ==
    /\ \/ call = "blockhash"
       \/ call = "built" /\ Op \in BlockhashFirstOps
    /\ call' = "signed"
    /\ ret' = ret
    /\ UNCHANGED <<arg, codecVars, protoVars, metaVars>>

\* await connection.sendRawTransaction(...)
SendRawTransaction ==
    /\ call = "signed"
    /\ call' = "sent"
    /\ ret' = [ret EXCEPT !.network = @ + 1]
    /\ UNCHANGED <<arg, codecVars, protoVars, metaVars>>

\* await connection.confirmTransaction(...), invalidateListingCaches() on
\* the caches, which hold nothing here, and the return.
ConfirmTransaction ==
    /\ call = "sent"
    /\ call' = "confirmed"
    /\ ret' = [ret EXCEPT !.network = @ + 1]
    /\ UNCHANGED <<arg, codecVars, protoVars, metaVars>>

\* An awaited step rejects, or an account that was read is missing.
Reject ==
    /\ call \in {"read", "blockhash", "signed", "sent"}
    /\ call' = "thrown"
    /\ ret' = ret
    /\ UNCHANGED <<arg, codecVars, protoVars, metaVars>>

EncodeNext ==
    \/ HandleSubmit
    \/ Enter
    \/ ReadAccounts
    \/ Build
    \/ GetLatestBlockhash
    \/ SignTransaction
    \/ SendRawTransaction
    \/ ConfirmTransaction
    \/ Reject

EncodeSpec == EncodeInit /\ [][EncodeNext]_vars

\* createRoyaltyListing runs with args outside the basis-point bound.
BpsOutOfBound ==
    /\ Op = "createRoyaltyListing"
    /\ ret.args # Null
    /\ (ret.args.percentageBps > 10000 \/ ret.args.creatorRoyaltyBps > 10000)

\* C17: createRoyaltyListing, called directly or through handleSubmit, with
\* basis points above 10000 is rejected (InvalidArgument) before any byte
\* of the payload exists.
C17_BpsRejected == BpsOutOfBound => ret.payload = Null

\* C18: an argument outside a documented bound (basis points, metadata
\* string length) aborts the operation before its first network
\* interaction, and no string is silently truncated on the way.
C18_AbortsBeforeNetwork ==
    /\ BpsOutOfBound => ret.network = 0
    /\ (arg.op = "handleSubmit" /\ call = "args") =>
           /\ FormMetadata(arg.form).work = arg.form.workIdentifier
           /\ FormMetadata(arg.form).description = arg.form.description
           /\ FormMetadata(arg.form).imageUrl = arg.form.imageUrl

\* C19: every payload is the operation's 8-byte discriminator followed by
\* its arguments packed in order: create-listing is 33 bytes plus the uri's
\* bytes and reads back as uri length, uri, percentage, duration, price,
\* resale flag and royalty; deposit-payout and list-for-resale are 16 bytes,
\* the amount after the discriminator; buy-listing, claim-payout,
\* buy-resale and cancel-resale are the 8 discriminator bytes alone.
C19_PayloadLayout ==
    ret.payload # Null =>
        LET data == ret.payload
            a    == ret.args
        IN  /\ SubSeq(data, 1, 8) = Discriminator(Op)
            /\ Op = "createRoyaltyListing" =>
                  LET n == ReadUIntLE(data, 8, 4)
                  IN  /\ n = Len(Utf8(a.metadataUri))
                      /\ Len(data) = 33 + n
                      /\ Slice(data, 12, 12 + n) = Utf8(a.metadataUri)
                      /\ ReadUIntLE(data, 12 + n, 2) = a.percentageBps
                      /\ ReadBigUInt64LE(data, 14 + n) = a.durationSeconds
                      /\ ReadBigUInt64LE(data, 22 + n) = a.price
                      /\ data[31 + n] = (IF a.resaleAllowed THEN 1 ELSE 0)
                      /\ ReadUIntLE(data, 31 + n, 2) = a.creatorRoyaltyBps
            /\ Op = "depositPayout" =>
                  /\ Len(data) = 16
                  /\ ReadBigUInt64LE(data, 8) = Small(a.amountUsdc * 1000000)
            /\ Op = "listForResale" =>
                  /\ Len(data) = 16
                  /\ ReadBigUInt64LE(data, 8) = Small(a.priceUsdc * 1000000)
            /\ Op \in ReadFirstOps => Len(data) = 8

C19_Witness ==
    /\ call = "built"
    /\ arg.op = "createRoyaltyListing"
    /\ arg.args.metadataUri = AccentedUri
    /\ arg.args.price = MaxU64
    /\ Len(ret.payload) = 42

\* The fewest bytes the single-record lookup that has run needs.
RecordLength ==
    IF call = "fetchPayoutPool" THEN 104
    ELSE IF call = "fetchUserResaleListing" THEN 120 ELSE ResaleLen

\* C21: a single-record lookup (fetchPayoutPool, fetchResaleListing,
\* fetchUserResaleListing) of an account that exists but is cut short gives a
\* result (Corrupt) that differs from the result for an address with no
\* account, which is null.
C21_CorruptDiffersFromNotFound ==
    (/\ call \in {"fetchPayoutPool", "fetchResaleListing", "fetchUserResaleListing"}
     /\ arg \notin {NoAccount, Rejected}
     /\ Len(arg.data) < RecordLength)
        => ret # Null

-----------------------------------------------------------------------------
(* LoadSpec: the marketplace page's loadListings for the primary listings: *)
(* the listings the API returned are filtered, one async callback per      *)
(* listing awaits fetchMetadataFromURI, and Promise.all joins the results. *)
(* The dashboard's loadData joins payout pools the same way.              *)

\* Listings the API returns.
MaxListings == 3

NoUri == Uri("none", <<>>, 0)

LoadUris ==
    {Uri("https", <<>>, 0), Uri("ipfs", <<Str("youtube"), Str("my-video")>>, 0),
     Uri("data", <<>>, 1), NoUri}

\* The lists fetchListingsFromAPI can resolve to: listing i has pubkey i.
ApiListings ==
    UNION {[1..n -> [status : {"Active", "Sold"}, metadataUri : LoadUris]] : n \in 1..MaxListings}

WithPubkeys(list) ==
    [i \in 1..Len(list) |-> [pubkey |-> i, status |-> list[i].status,
                             metadataUri |-> list[i].metadataUri]]

\* allListings.filter(l => l.status === 'Active' && l.metadataUri)
ActiveListings(all) ==
    SelectSeq(all, LAMBDA l : l.status = "Active" /\ l.metadataUri # NoUri)

\* What fetchMetadataFromURI(uri) can resolve to.
MetadataResults(uri) ==
    IF uri.scheme = "https"
    THEN {FromJson(Bodies[k]) : k \in DOMAIN Bodies} \cup {Fallback}
    ELSE {parseMetadataFromAPI(uri)}

\* The object the map callback returns for listing l and its metadata.
Formatted(l, metadata) ==
    [id           |-> l.pubkey,
     listingName  |-> IF metadata.name # <<>> /\ metadata.name # Str("Untitled")
                      THEN metadata.name ELSE <<>>,
     imageUrl     |-> metadata.imageUrl,
     description  |-> metadata.description,
     platformIcon |-> metadata.platform]

\* A join that pairs each arriving metadata with the next listing in line.
SettleInArrivalOrder(active, results, i, metadata) ==
    LET k == CHOOSE j \in 1..Len(results) :
                 results[j] = Null /\ \A h \in 1..(j - 1) : results[h] # Null
    IN  [results EXCEPT ![k] = Formatted(active[k], metadata)]

\* Callback i resolves: Promise.all keeps its value at index i.
Settle(active, results, i, metadata) ==
    [results EXCEPT ![i] = Formatted(active[i], metadata)]

LoadInit ==
    /\ CodecIdle
    /\ ProtoInit
    /\ MetaInit
    /\ arg \in {WithPubkeys(l) : l \in ApiListings}
    /\ call = "none"
    /\ ret = Null

\* fetchListingsFromAPI has resolved: filter, and start one callback per
\* listing, each up to its await.
StartCallbacks ==
    /\ call = "none"
    /\ call' = "mapping"
    /\ LET active == ActiveListings(arg)
       IN  ret' = [active  |-> active,
                   asked   |-> [i \in 1..Len(active) |-> active[i].metadataUri],
                   got     |-> [i \in 1..Len(active) |-> Null],
                   results |-> [i \in 1..Len(active) |-> Null],
                   out     |-> Null]
    /\ UNCHANGED <<arg, codecVars, protoVars, metaVars>>

\* The metadata of callback i arrives and the callback returns.
CallbackResolves(i) ==
    /\ call = "mapping"
    /\ i \in 1..Len(ret.active)
    /\ ret.got[i] = Null
    /\ \E metadata \in MetadataResults(ret.asked[i]) :
           ret' = [ret EXCEPT !.got[i] = metadata,
                              !.results = Settle(ret.active, ret.results, i, metadata)]
    /\ UNCHANGED <<arg, call, codecVars, protoVars, metaVars>>

\* Promise.all resolves once every callback has.
JoinAll ==
    /\ call = "mapping"
    /\ \A i \in 1..Len(ret.active) : ret.got[i] # Null
    /\ call' = "joined"
    /\ ret' = [ret EXCEPT !.out = ret.results]
    /\ UNCHANGED <<arg, codecVars, protoVars, metaVars>>

LoadNext ==
    \/ StartCallbacks
    \/ \E i \in 1..MaxListings : CallbackResolves(i)
    \/ JoinAll

LoadSpec == LoadInit /\ [][LoadNext]_vars

\* C22: in the joined result of the parallel metadata fetches every listing
\* stands once, under its own identifier, with the metadata that the fetch
\* of its own uri resolved to, whatever order the fetches completed in.
C22_JoinedByIdentifier ==
    call = "joined" =>
        /\ Len(ret.out) = Len(ActiveListings(arg))
        /\ \A i \in 1..Len(ret.out) :
              LET l == ActiveListings(arg)[i]
              IN  /\ ret.out[i].id = l.pubkey
                  /\ ret.asked[i] = l.metadataUri
                  /\ ret.out[i].imageUrl = ret.got[i].imageUrl
                  /\ ret.out[i].description = ret.got[i].description
                  /\ ret.out[i].platformIcon = ret.got[i].platform
                  /\ l.metadataUri.scheme # "https" =>
                        ret.out[i].platformIcon = parseMetadataFromAPI(l.metadataUri).platform

\* Three listings joined, the last fetch to be asked having completed with
\* metadata unlike that of the first.
C22_Witness ==
    /\ call = "joined"
    /\ Len(ret.out) = 3
    /\ ret.got[1] # ret.got[3]
    /\ ret.asked[1] # ret.asked[3]

-----------------------------------------------------------------------------
(* DeriveSpec: the address derivations, each called twice with the same    *)
(* parts while the connected wallet may change in between.                *)
(* PublicKey.findProgramAddressSync belongs to the web3 library: it hashes *)
(* the seeds, a bump counted down from 255, the program id and a marker,   *)
(* and returns the first hash that is not a point of the curve.  The hash  *)
(* and the curve test are stood in for by a small digest; the search for   *)
(* the bump is the library's.                                              *)

RECURSIVE Digest(_)
Digest(bytes) ==
    IF bytes = <<>> THEN 7
    ELSE IF Len(bytes) = 1 THEN bytes[1] + 1
    ELSE LET half == Len(bytes) \div 2
         IN  (Digest(SubSeq(bytes, 1, half)) * 31
              + Digest(SubSeq(bytes, half + 1, Len(bytes))) * 17 + Len(bytes)) % 65521

RECURSIVE Flatten(_)
Flatten(seeds) == IF seeds = <<>> THEN <<>> ELSE seeds[1] \o Flatten(Tail(seeds))

\* The stand-in for "the hash is a point of the curve".
OnCurve(h) == h % 2 = 0

RECURSIVE FindFrom(_, _, _)
FindFrom(seeds, programId, bump) ==
    LET h == Digest(Flatten(seeds) \o <<bump>> \o programId
                       \o <<80, 114, 111, 103, 114, 97, 109, 68, 101, 114, 105, 118, 101, 100, 65, 100, 100, 114, 101, 115, 115>>)
    IN  IF ~OnCurve(h) THEN [address |-> LE(h, 32), bump |-> bump]
        ELSE IF bump = 0 THEN Throw
        ELSE FindFrom(seeds, programId, bump - 1)

\* PublicKey.findProgramAddressSync(seeds, programId)
findProgramAddressSync(seeds, programId) == FindFrom(seeds, programId, 255)

PROGRAM_ID == Key(9)

getPlatformConfigPDA(programId) ==
    findProgramAddressSync(<<<<112, 108, 97, 116, 102, 111, 114, 109, 95, 99, 111, 110, 102, 105, 103>>>>, programId)

\* A listing derivation that takes the creator from the connected wallet.
getRoyaltyListingPDAOfWallet(programId, creator, nftMint) ==
    findProgramAddressSync(<<<<114, 111, 121, 97, 108, 116, 121, 95, 108, 105, 115, 116, 105, 110, 103>>, ret.wallet, nftMint>>, programId)

getRoyaltyListingPDA(programId, creator, nftMint) ==
    findProgramAddressSync(<<<<114, 111, 121, 97, 108, 116, 121, 95, 108, 105, 115, 116, 105, 110, 103>>, creator, nftMint>>, programId)

getResaleListingPDA(programId, royaltyListing, seller) ==
    findProgramAddressSync(<<<<114, 101, 115, 97, 108, 101, 95, 108, 105, 115, 116, 105, 110, 103>>, royaltyListing, seller>>, programId)

getPayoutPoolPDA(programId, royaltyListing) ==
    findProgramAddressSync(<<<<112, 97, 121, 111, 117, 116, 95, 112, 111, 111, 108>>, royaltyListing>>, programId)

getPayoutPoolPDAForListing(royaltyListingPubkey) ==
    findProgramAddressSync(<<<<112, 97, 121, 111, 117, 116, 95, 112, 111, 111, 108>>, royaltyListingPubkey>>, PROGRAM_ID)

getPayoutClaimPDA(payoutPoolPubkey, holderPubkey) ==
    findProgramAddressSync(<<<<112, 97, 121, 111, 117, 116, 95, 99, 108, 97, 105, 109>>, payoutPoolPubkey, holderPubkey>>, PROGRAM_ID)

Derivations ==
    {"getPlatformConfigPDA", "getRoyaltyListingPDA", "getResaleListingPDA",
     "getPayoutPoolPDA", "getPayoutPoolPDAForListing", "getPayoutClaimPDA"}

\* The derivation d applied to its parts.
Derive(d) ==
    IF d.fn = "getPlatformConfigPDA" THEN getPlatformConfigPDA(d.programId)
    ELSE IF d.fn = "getRoyaltyListingPDA" THEN getRoyaltyListingPDA(d.programId, d.a, d.b)
    ELSE IF d.fn = "getResaleListingPDA" THEN getResaleListingPDA(d.programId, d.a, d.b)
    ELSE IF d.fn = "getPayoutPoolPDA" THEN getPayoutPoolPDA(d.programId, d.a)
    ELSE IF d.fn = "getPayoutPoolPDAForListing" THEN getPayoutPoolPDAForListing(d.a)
    ELSE getPayoutClaimPDA(d.a, d.b)

DeriveKeys == {Key(1), Key(2), Key(3)}

DeriveInputs ==
    [fn : Derivations, programId : {PROGRAM_ID, Key(8)}, a : DeriveKeys, b : DeriveKeys]

DeriveInit ==
    /\ CodecIdle
    /\ ProtoInit
    /\ MetaInit
    /\ arg \in DeriveInputs
    /\ call = "none"
    /\ \E w \in DeriveKeys : ret = [wallet |-> w, first |-> Null, second |-> Null]

DeriveFirst ==
    /\ call = "none"
    /\ call' = "first"
    /\ ret' = [ret EXCEPT !.first = Derive(arg)]
    /\ UNCHANGED <<arg, codecVars, protoVars, metaVars>>

\* The user connects another wallet.
SwitchWallet ==
    /\ call = "first"
    /\ \E w \in DeriveKeys \ {ret.wallet} : ret' = [ret EXCEPT !.wallet = w]
    /\ UNCHANGED <<arg, call, codecVars, protoVars, metaVars>>

DeriveSecond ==
    /\ call = "first"
    /\ call' = "second"
    /\ ret' = [ret EXCEPT !.second = Derive(arg)]
    /\ UNCHANGED <<arg, codecVars, protoVars, metaVars>>

DeriveNext ==
    \/ DeriveFirst
    \/ SwitchWallet
    \/ DeriveSecond

DeriveSpec == DeriveInit /\ [][DeriveNext]_vars

-----------------------------------------------------------------------------
\* What the listing decoder that has not run returns for the same buffer.
OtherListingOutcome ==
    IF call = "fetchAllListings"
    THEN parseListingAccount(ArgAccount.pubkey, ArgAccount.data)
    ELSE ListingOutcome(ArgAccount)

OtherListingDecoder ==
    IF call = "fetchAllListings" THEN "parseListingAccount" ELSE "fetchAllListings"

\* C24: fetchAllListings and the route's parseListingAccount accept the same
\* buffers as listings and, where both accept, return equal creator, content
\* id, uri, percentage, duration, created-at, price, resale flag, royalty
\* and status.
C24_ListingDecodersAgree ==
    call \in ListingDecoders =>
        /\ (ret = Null) <=> (OtherListingOutcome = Null)
        /\ ret # Null =>
              /\ DecodedListing(call, ret)
                     = DecodedListing(OtherListingDecoder, OtherListingOutcome)
              /\ ret.status = OtherListingOutcome.status

-----------------------------------------------------------------------------
(* EscrowSpec: the escrow token account of one resale listing, as          *)
(* listForResale creates it and as buyResaleListing and cancelResale look  *)
(* for it.  The token accounts owned by the resale address are those the   *)
(* program's list instruction and anyone's create-associated-account       *)
(* instruction leave on the ledger.                                       *)

TOKEN_PROGRAM_ID == Key(6)

ASSOCIATED_TOKEN_PROGRAM_ID == Key(4)

\* getAssociatedTokenAddressSync(mint, owner, allowOwnerOffCurve), of the
\* token library: the address derived from owner, token program and mint.
getAssociatedTokenAddressSync(mint, owner) ==
    findProgramAddressSync(<<owner, TOKEN_PROGRAM_ID, mint>>, ASSOCIATED_TOKEN_PROGRAM_ID).address

\* The public keys Keypair.generate() can return.
GeneratedKeys == {Key(41), Key(42), Key(43)}

EscrowInputs == [listing : DeriveKeys, seller : DeriveKeys, nftMint : DeriveKeys]

\* The resale address of the listing under test.
ResalePda == getResaleListingPDA(PROGRAM_ID, arg.listing, arg.seller).address

EscrowInit ==
    /\ CodecIdle
    /\ ProtoInit
    /\ MetaInit
    /\ arg \in EscrowInputs
    /\ call = "none"
    /\ ret = [created |-> Null, owned |-> <<>>, attached |-> Null]

\* listForResale: a fresh keypair is the escrow account the instruction
\* creates; the program makes the resale address its owner.
ListForResale ==
    /\ call = "none"
    /\ call' = "listed"
    /\ \E escrowNft \in GeneratedKeys :
           ret' = [ret EXCEPT !.created = escrowNft, !.owned = <<escrowNft>>]
    /\ UNCHANGED <<arg, codecVars, protoVars, metaVars>>

\* Somebody creates the associated token account of the resale address;
\* getTokenAccountsByOwner lists the accounts in the node's order.
CreateAssociatedAccount ==
    /\ call = "listed"
    /\ Len(ret.owned) = 1
    /\ LET ata == getAssociatedTokenAddressSync(arg.nftMint, ResalePda)
       IN  \E owned \in {ret.owned \o <<ata>>, <<ata>> \o ret.owned} :
               ret' = [ret EXCEPT !.owned = owned]
    /\ UNCHANGED <<arg, call, codecVars, protoVars, metaVars>>

\* buyResaleListing: escrowNft = getAssociatedTokenAddressSync(nftMint, resaleListingPubkey, true)
BuyAttaches ==
    /\ call = "listed"
    /\ call' = "buyResaleListing"
    /\ ret' = [ret EXCEPT !.attached = getAssociatedTokenAddressSync(arg.nftMint, ResalePda)]
    /\ UNCHANGED <<arg, codecVars, protoVars, metaVars>>

\* cancelResale: escrowNft = tokenAccounts.value[0].pubkey
CancelAttaches ==
    /\ call = "listed"
    /\ call' = "cancelResale"
    /\ ret' = [ret EXCEPT !.attached = ret.owned[1]]
    /\ UNCHANGED <<arg, codecVars, protoVars, metaVars>>

EscrowNext ==
    \/ ListForResale
    \/ CreateAssociatedAccount
    \/ BuyAttaches
    \/ CancelAttaches

EscrowSpec == EscrowInit /\ [][EscrowNext]_vars

\* C25: the escrow account buyResaleListing attaches and the one
\* cancelResale attaches are both the account listForResale created for
\* the listing.
C25_SameEscrow ==
    call \in {"buyResaleListing", "cancelResale"} => ret.attached = ret.created

-----------------------------------------------------------------------------
(* FailSpec: the two client queries and the two GET handlers side by side, *)
(* with getProgramAccounts free to reject, while the ledger changes.  The  *)
(* clock stands still: no entry expires, so whatever a query skips or      *)
(* keeps is a live entry.                                                  *)

FailNext ==
    \/ \E p \in Slots, op \in ClientOps, fresh \in BOOLEAN : FetchCall(p, op, fresh)
    \/ \E p \in Slots : FetchResume(p)
    \/ \E p \in Slots : FetchFail(p)
    \/ \E p \in Slots, op \in RouteOps, fresh \in BOOLEAN : RouteStart(p, op, fresh)
    \/ \E p \in Slots : RedisGetServe(p)
    \/ \E p \in Slots : RedisGetReturn(p)
    \/ \E p \in Slots : RouteRpcDone(p)
    \/ \E p \in Slots : RouteRpcFail(p)
    \/ \E p \in Slots : RedisSetDone(p)
    \/ LedgerChange

FailSpec == ApiInit /\ [][FailNext]_vars

\* What a finished GET handler responds: NextResponse.json({ success: true,
\* data, .. }) or ({ success: false, .. }, { status: 500 }).
Response(pr) ==
    IF pr.src = "failed"
    THEN [success |-> FALSE, status |-> 500, data |-> Null]
    ELSE [success |-> TRUE, status |-> 200, data |-> pr.res.items]

\* lib/api.ts fetchListingsFromAPI on a response: if (!result.success ||
\* !result.data) return []; a rejected fetch lands in the catch, return [].
fetchListingsFromAPI(response) ==
    IF response = Throw THEN <<>>
    ELSE IF ~response.success \/ response.data = Null THEN <<>>
    ELSE response.data

\* The step is the end of query p in a failure of its network fetch.
FetchFails(p) ==
    /\ procs[p].pc = "rpc"
    /\ procs'[p].pc = "done"
    /\ procs'[p].src = "failed"

\* The step is the return of query p with a collection it fetched.
FetchSucceeds(p) ==
    /\ procs[p].pc \in {"rpc", "redisSet"}
    /\ procs'[p].pc = "done"
    /\ procs'[p].src = "network"

\* C26: a failed network fetch leaves both caches as they were and raises
\* nothing: the client functions return the empty list, the GET handlers
\* respond success: false with status 500 (which fetchListingsFromAPI turns
\* into the empty list); and a cache entry is only ever written with the
\* collection that a fetch succeeding in that step returns.
C26_FailedFetchLeavesCache ==
    [][/\ \A p \in Slots :
            FetchFails(p) =>
                /\ cache' = cache
                /\ redis' = redis
                /\ procs'[p].res = Nothing
                /\ procs'[p].res.items = <<>>
                /\ procs'[p].op \in RouteOps =>
                       /\ Response(procs'[p]).success = FALSE
                       /\ Response(procs'[p]).status = 500
                       /\ fetchListingsFromAPI(Response(procs'[p])) = <<>>
       /\ \A k \in ClientKeys :
            (cache'[k] # cache[k] /\ cache'[k] # Miss) =>
                \E p \in Slots : /\ FetchSucceeds(p)
                                 /\ ClientKey(procs'[p].op) = k
                                 /\ procs'[p].op \in ClientOps
                                 /\ cache'[k].value = procs'[p].res
       /\ \A k \in RedisKeys :
            (redis'[k] # redis[k] /\ redis'[k] # Miss) =>
                \E p \in Slots : /\ FetchSucceeds(p)
                                 /\ RouteKey(procs'[p].op) = k
                                 /\ procs'[p].op \in RouteOps
                                 /\ redis'[k].value = procs'[p].res
      ]_vars

\* A GET handler has failed while Redis holds a non-empty collection under its
\* key.
C26_Witness ==
    \E p \in Slots :
        /\ procs[p].pc = "done" /\ procs[p].src = "failed"
        /\ procs[p].op \in RouteOps
        /\ redis[RouteKey(procs[p].op)] # Miss
        /\ redis[RouteKey(procs[p].op)].value.items # <<>>

-----------------------------------------------------------------------------
(* AnySpec: lib/solana.ts fetchAnyListing, one await at a time.  The key   *)
(* may be that of a primary listing, the account at the key may be absent, *)
(* a resale record, or anything else, and each fetchAllListings() may      *)
(* resolve to the decoded ledger or to [].                                 *)

AnyKeys ==
    {AllListingsAt[0].items[i].publicKey : i \in 1..Len(AllListingsAt[0].items)}
    \cup {Pda}

AnyInputs == [key : AnyKeys, info : LookupInputs]

AnyInit ==
    /\ CodecIdle
    /\ ProtoInit
    /\ MetaInit
    /\ arg \in AnyInputs
    /\ call = "none"
    /\ ret = [asked |-> <<>>, listings |-> <<>>, result |-> Null]

\* fetchAnyListing(key) up to its first await: fetchListing(key), that is
\* fetchAllListings().
FetchAnyListing ==
    /\ call = "none"
    /\ call' = "fetchListing"
    /\ ret' = [ret EXCEPT !.asked = Append(@, "fetchAllListings")]
    /\ UNCHANGED <<arg, codecVars, protoVars, metaVars>>

\* A fetchAnyListing that would go on to the resale account whatever the
\* primary lookup found.
PrimaryResolvesAsksOn ==
    /\ call = "fetchListing"
    /\ \E listings \in ListingsResults :
         /\ call' = "fetchResaleListing"
         /\ ret' = [ret EXCEPT !.asked = Append(@, "getAccountInfo"),
                               !.listings = listings]
    /\ UNCHANGED <<arg, codecVars, protoVars, metaVars>>

\* fetchListing resolves: if (primaryListing) return { type: 'primary', data };
\* else fetchResaleListing(key) is called, up to its getAccountInfo.
PrimaryResolves ==
    /\ call = "fetchListing"
    /\ \E listings \in ListingsResults :
         LET primaryListing == fetchListing(listings, arg.key)
         IN  IF primaryListing # Null
             THEN /\ call' = "returned"
                  /\ ret' = [ret EXCEPT !.listings = listings,
                                        !.result = [type |-> "primary",
                                                    data |-> primaryListing]]
             ELSE /\ call' = "fetchResaleListing"
                  /\ ret' = [ret EXCEPT !.asked = Append(@, "getAccountInfo"),
                                        !.listings = listings]
    /\ UNCHANGED <<arg, codecVars, protoVars, metaVars>>

\* getAccountInfo settles and fetchResaleListing runs to its end (a record of
\* 121 bytes makes it call fetchListing once more for the original listing):
\* if (resaleListing) return { type: 'resale', data }; return null.
ResaleResolves ==
    /\ call = "fetchResaleListing"
    /\ \E listings \in ListingsResults :
         LET resaleListing == fetchResaleListing(arg.key, arg.info, listings)
         IN  /\ call' = "returned"
             /\ ret' = [ret EXCEPT
                          !.asked = IF resaleListing # Null
                                    THEN Append(@, "fetchAllListings") ELSE @,
                          !.result = IF resaleListing # Null
                                     THEN [type |-> "resale", data |-> resaleListing]
                                     ELSE Null]
    /\ UNCHANGED <<arg, codecVars, protoVars, metaVars>>

AnyNext ==
    \/ FetchAnyListing
    \/ PrimaryResolves
    \/ ResaleResolves

AnySpec == AnyInit /\ [][AnyNext]_vars

\* The key is among the primary listings that fetchAllListings() resolved to.
FoundPrimary ==
    \E i \in 1..Len(ret.listings) : ret.listings[i].publicKey = arg.key

\* The account at the key is there and has the length of a resale record.
FoundResale ==
    /\ arg.info \notin {NoAccount, Rejected}
    /\ Len(arg.info.data) = ResaleLen

\* C27: the primary market has precedence.  The resale account is asked for
\* only after the primary lookup found nothing; the result is of type
\* 'primary', carrying the listing of that key, whenever the key is among the
\* primary listings; it is of type 'resale' when only the resale lookup found
\* something; and it is null exactly when both found nothing.
C27_PrimaryPrecedence ==
    /\ (\E i \in 1..Len(ret.asked) : ret.asked[i] = "getAccountInfo") => ~FoundPrimary
    /\ call = "returned" =>
         /\ FoundPrimary =>
              /\ ret.result # Null
              /\ ret.result.type = "primary"
              /\ ret.result.data.publicKey = arg.key
         /\ (~FoundPrimary /\ FoundResale) =>
              /\ ret.result # Null
              /\ ret.result.type = "resale"
              /\ ret.result.data.publicKey = arg.key
         /\ (ret.result = Null) <=> (~FoundPrimary /\ ~FoundResale)

\* The key of a primary listing at which a record of resale length lies: the
\* call has returned the primary listing.
C27_Witness ==
    /\ call = "returned"
    /\ FoundPrimary
    /\ FoundResale
    /\ ret.result # Null
    /\ ret.result.type = "primary"

-----------------------------------------------------------------------------
(* Forced queries: forceRefresh / ?fresh=true *)

\* The step is the success of the network fetch of the forced query p.
ForcedFetchDone(p) ==
    /\ procs[p].pc = "rpc"
    /\ procs[p].fresh
    /\ procs'[p] # procs[p]
    /\ procs'[p].src # "failed"

\* C28: a forced query never reads the cache: it goes to the network even
\* when a live entry exists, and when its fetch succeeds the entry under its
\* key is replaced by the collection it returns; a GET handler without Redis
\* neither reads nor writes the cache.
C28_ForcedFetchOverwrites ==
    [][\A p \in Slots :
         /\ procs'[p].fresh => procs'[p].pc = "rpc"
         /\ (ForcedFetchDone(p) /\ procs[p].op \in ClientOps) =>
               /\ procs'[p].pc = "done"
               /\ cache'[ClientKey(procs[p].op)] # Miss
               /\ cache'[ClientKey(procs[p].op)].value = procs'[p].res
         /\ (ForcedFetchDone(p) /\ procs[p].op \in RouteOps /\ redisOn) =>
               procs'[p].pc = "redisSet"
         /\ (procs[p].pc = "redisSet" /\ procs'[p].pc = "done") =>
               /\ redis'[RouteKey(procs[p].op)] # Miss
               /\ redis'[RouteKey(procs[p].op)].value = procs'[p].res
         /\ ~redisOn =>
               /\ redis' = redis
               /\ procs'[p].pc \notin {"redisGet", "redisGot", "redisSet"}
      ]_vars

-----------------------------------------------------------------------------
(* BuySpec: lib/solana.ts buyRoyaltyListing and buyResaleListing, one      *)
(* await at a time.  The platform-config account and the resale account    *)
(* may each be there, be absent, or fail to be read; the in-memory cache   *)
(* may hold both collections when the purchase starts.                     *)

BuyOps == {"buyRoyaltyListing", "buyResaleListing"}

\* The token accounts a purchase creates when they are missing.
TokenAccounts == {"treasuryUsdc", "creatorUsdc", "buyerNft"}

\* The cache before the purchase: empty, or holding both collections.
BuyCaches ==
    {[k \in ClientKeys |-> Miss],
     CacheSet(CacheSet([k \in ClientKeys |-> Miss], "ALL_LISTINGS",
                       Value(AllListingsAt[0].items, 0, 0), CACHE_TTL_LISTINGS, 0),
              "ALL_RESALE_LISTINGS",
              Value(AllResaleListingsAt[0].items, 0, 0), CACHE_TTL_LISTINGS, 0)}

BuyAccounts ==
    [platform : {NoAccount, Rejected, AccountInfo(Key(7) \o Key(7) \o Key(8))},
     resale : {NoAccount, Rejected,
               AccountInfo(ResaleOf(RESALE_LISTING_DISCRIMINATOR, PlainResale))}]

BuyInputs == [op : BuyOps, accounts : BuyAccounts, cache : BuyCaches]

BuyInit ==
    /\ CodecIdle
    /\ MetaInit
    /\ arg \in BuyInputs
    /\ now = 0
    /\ chain = 0
    /\ cache = arg.cache
    /\ redis = [k \in RedisKeys |-> Miss]
    /\ redisOn = TRUE
    /\ procs = [p \in Slots |-> IdleProc]
    /\ mut = IdleMut
    /\ inval = 0
    /\ calls = 0
    /\ call = "none"
    /\ ret = [error |-> <<>>, creates |-> {}, signed |-> FALSE, sent |-> FALSE]

\* The purchase up to its first await: getAccountInfo(platformConfig).
BuyEnter ==
    /\ call = "none"
    /\ call' = "platformConfig"
    /\ UNCHANGED <<arg, ret, codecVars, protoVars, metaVars>>

\* A purchase that would go on without testing the platform-config account.
PlatformConfigReadUnchecked ==
    /\ call = "platformConfig"
    /\ call' = IF arg.op = "buyResaleListing" THEN "resaleListing" ELSE "blockhash"
    /\ UNCHANGED <<arg, ret, codecVars, protoVars, metaVars>>

\* The read settles: if (!platformConfigAccount) throw new Error("Platform
\* not initialized"); buyResaleListing goes on to getAccountInfo(
\* resaleListingPubkey), buyRoyaltyListing to getLatestBlockhash().
PlatformConfigRead ==
    /\ call = "platformConfig"
    /\ IF arg.accounts.platform = Rejected
       THEN call' = "thrown" /\ ret' = [ret EXCEPT !.error = "rejected"]
       ELSE IF arg.accounts.platform = NoAccount
       THEN call' = "thrown" /\ ret' = [ret EXCEPT !.error = "Platform not initialized"]
       ELSE /\ call' = IF arg.op = "buyResaleListing" THEN "resaleListing"
                       ELSE "blockhash"
            /\ ret' = ret
    /\ UNCHANGED <<arg, codecVars, protoVars, metaVars>>

\* if (!resaleListingAccount) throw new Error("Resale listing not found")
ResaleListingRead ==
    /\ call = "resaleListing"
    /\ IF arg.accounts.resale = Rejected
       THEN call' = "thrown" /\ ret' = [ret EXCEPT !.error = "rejected"]
       ELSE IF arg.accounts.resale = NoAccount
       THEN call' = "thrown" /\ ret' = [ret EXCEPT !.error = "Resale listing not found"]
       ELSE call' = "blockhash" /\ ret' = ret
    /\ UNCHANGED <<arg, codecVars, protoVars, metaVars>>

\* await connection.getLatestBlockhash()
BuyBlockhash ==
    /\ call = "blockhash"
    /\ call' = "tokenAccounts"
    /\ UNCHANGED <<arg, ret, codecVars, protoVars, metaVars>>

\* The reads of the token accounts: each missing one gets a create
\* instruction in front of the purchase.
TokenAccountsRead ==
    /\ call = "tokenAccounts"
    /\ \E missing \in SUBSET TokenAccounts :
         ret' = [ret EXCEPT !.creates = missing]
    /\ call' = "built"
    /\ UNCHANGED <<arg, codecVars, protoVars, metaVars>>

\* await provider.wallet.signTransaction(tx)
BuySigned ==
    /\ call = "built"
    /\ call' = "signed"
    /\ ret' = [ret EXCEPT !.signed = TRUE]
    /\ UNCHANGED <<arg, codecVars, protoVars, metaVars>>

\* await connection.sendRawTransaction(...)
BuySent ==
    /\ call = "signed"
    /\ call' = "sent"
    /\ ret' = [ret EXCEPT !.sent = TRUE]
    /\ UNCHANGED <<arg, codecVars, protoVars, metaVars>>

\* await connection.confirmTransaction(...); invalidateListingCaches();
\* return txId.
BuyConfirmed ==
    /\ call = "sent"
    /\ call' = "returned"
    /\ cache' = AfterConfirm(cache)
    /\ UNCHANGED <<now, chain, redis, redisOn, procs, mut, inval, calls>>
    /\ UNCHANGED <<arg, ret, codecVars, metaVars>>

\* A later await rejects: the blockhash, a token-account read, the wallet,
\* the send, the confirmation.
BuyRejected ==
    /\ call \in {"blockhash", "tokenAccounts", "built", "signed", "sent"}
    /\ call' = "thrown"
    /\ ret' = [ret EXCEPT !.error = "rejected"]
    /\ UNCHANGED <<arg, codecVars, protoVars, metaVars>>

BuyNext ==
    \/ BuyEnter
    \/ PlatformConfigRead
    \/ ResaleListingRead
    \/ BuyBlockhash
    \/ TokenAccountsRead
    \/ BuySigned
    \/ BuySent
    \/ BuyConfirmed
    \/ BuyRejected

BuySpec == BuyInit /\ [][BuyNext]_vars

\* The purchase has thrown the error with this message, nothing was signed
\* or sent, and the listing caches are as they were.
AbortedWith(message) ==
    /\ call = "thrown"
    /\ ret.error = message
    /\ ~ret.signed
    /\ ~ret.sent
    /\ cache = arg.cache

\* C29 as stated: a purchase throws "Platform not initialized" when
\* the platform-config account does not exist and buyResaleListing throws
\* "Resale listing not found" when the resale account does not exist, with
\* nothing signed or sent and the caches kept.
C29_MissingAccountAborts ==
    /\ (call \notin {"none", "platformConfig"} /\ arg.accounts.platform = NoAccount)
          => AbortedWith("Platform not initialized")
    /\ (call = "thrown" /\ arg.op = "buyResaleListing"
          /\ arg.accounts.resale = NoAccount)
          => AbortedWith("Resale listing not found")

\* C29, amended: "Platform not initialized" when the platform-config account
\* does not exist; "Resale listing not found" from buyResaleListing when the
\* platform-config account was read and exists and the resale account does
\* not; in both cases nothing is signed or sent and the caches are kept.
C29_MissingAccountAbortsInOrder ==
    /\ (call \notin {"none", "platformConfig"} /\ arg.accounts.platform = NoAccount)
          => AbortedWith("Platform not initialized")
    /\ (call \notin {"none", "platformConfig", "resaleListing"}
          /\ arg.op = "buyResaleListing"
          /\ arg.accounts.platform \notin {NoAccount, Rejected}
          /\ arg.accounts.resale = NoAccount)
          => AbortedWith("Resale listing not found")

\* buyResaleListing has thrown for the missing resale account while the cache
\* held both collections.
C29_Witness ==
    /\ arg.op = "buyResaleListing"
    /\ arg.accounts.resale = NoAccount
    /\ arg.cache["ALL_LISTINGS"] # Miss
    /\ AbortedWith("Resale listing not found")

-----------------------------------------------------------------------------
(* The memo of fetchMetadataFromURI *)

\* Where a stored result comes from: parseMetadataFromAPI, the direct fetch,
\* the proxy.
Resolved == {"parsed", "direct", "proxy"}

\* The step is a call of fetchMetadataFromURI by p.
Calls(p) ==
    /\ lookups[p].pc \in {"idle", "done"}
    /\ lookups'[p] # lookups[p]

\* The step ends a call of p.
Returns(p) ==
    /\ lookups'[p].pc = "done"
    /\ lookups'[p] # lookups[p]

\* The step is a call by p of a uri that has an entry: it returns that entry
\* at once, with no request and no write.
ServedFromMemo(p) ==
    /\ lookups'[p].pc = "done"
    /\ lookups'[p].src = "memo"
    /\ lookups'[p].result = metadataCache[lookups'[p].uri]
    /\ metadataCache' = metadataCache

\* What the claim's three parts share: only resolved results are stored, the
\* fallback is returned without being stored and the next call fetches
\* again, and the proxy is asked only from the catch of the direct fetch.
MemoDiscipline(p) ==
    /\ (Calls(p) /\ metadataCache[lookups'[p].uri] # Absent) => ServedFromMemo(p)
    /\ (Calls(p) /\ metadataCache[lookups'[p].uri] = Absent
          /\ lookups'[p].uri.scheme = "https") =>
             /\ lookups'[p].pc = "direct"
             /\ metadataCache' = metadataCache
    /\ (Returns(p) /\ lookups'[p].src = "fallback") => metadataCache' = metadataCache
    /\ (Returns(p) /\ lookups'[p].src \in Resolved) =>
             metadataCache' = MetadataCacheSet(metadataCache, lookups'[p].uri,
                                               lookups'[p].result)
    /\ (lookups'[p].pc = "proxy" /\ lookups[p].pc # "proxy") =>
             /\ lookups[p].pc = "direct"
             /\ metadataCache' = metadataCache
    /\ (lookups[p].pc = "direct" /\ Returns(p)) =>
             lookups'[p].src \in {"direct", "fallback"}

\* C30 as stated: the memo holds only resolved metadata, and once a
\* call for a uri has produced a result (from data:, ipfs: or a successful
\* fetch), a later call for that uri returns that same result without a
\* request; a double failure returns the fallback unstored; the proxy is
\* asked only after the direct fetch threw.
C30_MemoisedOnce ==
    [][\A p \in Slots :
         /\ MemoDiscipline(p)
         /\ \A q \in Slots :
              (/\ Calls(p)
               /\ lookups[q].pc = "done"
               /\ lookups[q].src \in Resolved
               /\ lookups[q].uri = lookups'[p].uri) =>
                    /\ ServedFromMemo(p)
                    /\ lookups'[p].result = lookups[q].result
      ]_vars

\* C30, amended: as above, except that the later call returns the result
\* stored for the uri at the time of the call: the earlier call's result
\* unless an overlapping fetch of the same uri has stored another one since.
C30_MemoisedLatest ==
    [][\A p \in Slots :
         /\ MemoDiscipline(p)
         /\ \A q \in Slots :
              (/\ Calls(p)
               /\ lookups[q].pc = "done"
               /\ lookups[q].src \in Resolved
               /\ lookups[q].uri = lookups'[p].uri) => ServedFromMemo(p)
      ]_vars

\* A call of an https uri was served from the memo that another call's
\* successful fetch had filled.
C30_Witness ==
    \E p, q \in Slots :
        /\ lookups[p].pc = "done" /\ lookups[p].src = "memo"
        /\ lookups[p].uri.scheme = "https"
        /\ lookups[q].pc = "done" /\ lookups[q].src \in {"direct", "proxy"}
        /\ lookups[q].uri = lookups[p].uri
        /\ lookups[p].result = lookups[q].result
        /\ lookups[p].result # Fallback

=============================================================================
